---- MODULE Spec2Model ----
(***************************************************************************)
(* Model of the generate -> score -> select orchestration of BeautyMaker:  *)
(*   services/pipeline/text2image.py   (text-to-image pipeline)            *)
(*   services/pipeline/image2image.py  (image-to-image pipeline)           *)
(*   services/selector/service.py      (selector)                          *)
(*                                                                         *)
(* Scheduling is asyncio's: one event loop, tasks interleave only at       *)
(* awaits.  One action of the model is one uninterrupted run of a          *)
(* coroutine from one suspension point to the next.                        *)
(***************************************************************************)
EXTENDS Integers, Sequences, FiniteSets, TLC

(* ------------------------------ bounds -------------------------------- *)
\* longest provider list of a request that is explored
MaxProviders == 2
\* largest variation count (num_candidates / num_variations) explored
MaxVariations == 2
\* largest number of locators one provider response carries
MaxUrls == 3
\* longest candidate list handed to the selector
MaxCands == 3
\* most provider calls of one run that are made to fail
MaxFailures == 3
\* most logical attempts (providers x variations) of one run
MaxTasks == 4

(* --------------------------- program constants ------------------------ *)
\* DoubaoAestheticClient: self._max_attempts = 3
max_attempts == 3
\* len(delays): delays = [0.3, 0.8, 1.5]
NumDelays == 3
\* capped_variations = max(1, min(num_variations, 15))
VariationCap == 15

\* keys of _REGISTRY that the pipelines are run with, and an id that is not a key
Registry == {"qwen", "doubao_seedream"}
ProviderIds == Registry \cup {"ghost"}

\* str(exc) of the failures a provider call is made to end with
NoImageMessage == "no valid image"
ErrorMessages ==
    {"request timeout", "http 503", "api key missing", "http 429", "http 400"}

\* the retry signals that occur in a (lower-cased) message
SignalsIn(message) ==
    CASE message = "request timeout" -> {"timeout"}
      [] message = "http 429" -> {"429"}
      [] OTHER -> {}

retry_signals ==
    {"throttling", "rate limit", "ratequota", "too many requests", "timeout",
     "timed out", "temporarily unavailable", "server busy", "429",
     "connection reset"}

\* any(signal in message for signal in retry_signals)
is_retryable_generation_error(message) ==
    SignalsIn(message) \cap retry_signals # {}

(* ------------------------------- state -------------------------------- *)
VARIABLES
    kind,        \* "t2i" | "i2i" | "select": which entry point this behaviour runs
    providers,   \* payload.providers, in request order
    num,         \* payload.num_candidates / payload.params.num_variations
    tasks,       \* logical generation attempts, by creation order
    sem,         \* provider_limits: provider id -> Semaphore._value
    cur,         \* image2image: index of the provider the for loop is at
    gen,         \* where _generate_candidates is
    images,      \* the list _generate_candidates builds and returns
    run,         \* where run_*_pipeline is
    sel_in,      \* selector input: candidates and evaluations
    sel_out,     \* selector output
    agg_in,      \* score_candidates input: images and requested modules
    agg_out,     \* where score_candidates is, and what it has built
    pipe         \* one run of a pipeline entry point, from request to result

vars == <<kind, providers, num, tasks, sem, cur, gen, images, run, sel_in, sel_out,
          agg_in, agg_out, pipe>>
genVars == <<kind, providers, num, tasks, sem, cur, gen, images, run>>
selVars == <<sel_in, sel_out>>
aggVars == <<agg_in, agg_out>>

Range(s) == {s[i] : i \in DOMAIN s}

SeqsUpTo(S, n) == UNION {[1..k -> S] : k \in 0..n}

\* the slots of the logical attempts: provider i owns slots (i-1)*num+1 .. i*num
TaskIds == 1..(Len(providers) * num)
PIdx(t) == ((t - 1) \div num) + 1
ProviderOf(t) == providers[PIdx(t)]
SlotsOf(i) == {t \in TaskIds : PIdx(t) = i}

\* a logical attempt: one call of _run_with_retry
\*   pc      "absent"   not created yet
\*           "waiting"  suspended in semaphore.acquire()
\*           "spacing"  inside the with block, in asyncio.sleep(0.1 + jitter)
\*           "calling"  inside the with block, in provider.generate()
\*           "backoff"  outside the with block, in asyncio.sleep(backoff)
\*           "ok" | "failed" | "cancelled"   ended
\*   attempt the loop variable of `for attempt, delay in enumerate(delays, 1)`
\*   calls   provider.generate() calls made so far
\*   err     str(last_error), "" when there is none
\*   urls    number of locators the successful call returned
\*   batch   TRUE for the sequential (one call, many images) request
\*   order   the place of the attempt among the attempts that have returned a
\*           result (the order in which the futures gather waits for are set);
\*           0 before that
NoTask == [pc |-> "absent", attempt |-> 0, calls |-> 0, err |-> "", urls |-> 0,
           batch |-> FALSE, order |-> 0]

Ended(r) == r.pc \in {"ok", "failed", "cancelled"}
Inside(r) == r.pc \in {"spacing", "calling"}
Live(r) == r.pc \in {"waiting", "spacing", "calling", "backoff"}

(* --------------------------- asyncio.Semaphore ------------------------ *)
\* mutant: every gate is created with two permits
provider_limits_two == [p \in Range(providers) |-> 2]

\* provider_limits = {name: asyncio.Semaphore(1) for name in set(providers)}
provider_limits == [p \in Range(providers) |-> 1]

\* mutant: one gate shared by every provider
GateOfShared(p) == CHOOSE q \in Range(providers) : TRUE

\* semaphore = provider_limits[provider_id]: the gate of a provider is the one
\* stored under its own id
GateOf(p) == p

\* Semaphore.locked() as acquire() reads it
Locked(s, p) == s[GateOf(p)] = 0

\* `async with semaphore` entered by attempt t: taken at once when a permit is
\* free, otherwise the attempt suspends among the waiters
Enter(ts, s, t) ==
    LET p == ProviderOf(t) IN
    IF Locked(s, p)
    THEN [tasks |-> [ts EXCEPT ![t].pc = "waiting"], sem |-> s]
    ELSE [tasks |-> [ts EXCEPT ![t].pc = "spacing"],
          sem |-> [s EXCEPT ![GateOf(p)] = @ - 1]]

\* the waiters Semaphore.release() may wake: a suspended attempt of the same
\* provider, 0 when there is none.  (Which waiter runs first depends on the
\* interpreter's wake-up order; every choice is explored.)
Wakeable(ts, p) ==
    LET w == {u \in DOMAIN ts : ts[u].pc = "waiting"
                                 /\ GateOf(ProviderOf(u)) = GateOf(p)}
    IN IF w = {} THEN {0} ELSE w

\* Semaphore.release(): _value += 1, then _wake_up_next() hands the permit to
\* waiter w, which resumes inside its with block
Release(ts, s, p, w) ==
    LET s1 == [s EXCEPT ![GateOf(p)] = @ + 1] IN
    IF w = 0
    THEN [tasks |-> ts, sem |-> s1]
    ELSE [tasks |-> [ts EXCEPT ![w].pc = "spacing"],
          sem |-> [s1 EXCEPT ![GateOf(p)] = @ - 1]]


(* ------------------------------ providers ----------------------------- *)
\* get_provider(name): the registered provider object, whose .name is its key
IsRegistered(id) == id \in Registry
get_provider(id) == [name |-> id]

(* --------------------------- _run_with_retry -------------------------- *)
\* a coroutine's first run: _generate_single() up to its first suspension.
\* text2image looks the provider up inside the task, so an unknown id fails
\* that task alone, before it touches the gate.
FirstStep(ts, s, t, isBatch) ==
    Enter([ts EXCEPT ![t] = [NoTask EXCEPT !.attempt = 1, !.batch = isBatch]],
          s, t)

\* mutant: the gate is not given back when the with block is left
ExitGateKept(ts, s, t, w) == [tasks |-> ts, sem |-> s]

\* leaving the with block of attempt t (normally or by an exception)
ExitGate(ts, s, t, w) == Release(ts, s, ProviderOf(t), w)

\* mutant: the with block encloses the whole retry loop, so the gate stays
\* taken during the backoff and is given back only when the attempt ends
OnTryFailedHolding(ts, s, t, message, w) ==
    IF ts[t].attempt < NumDelays /\ is_retryable_generation_error(message)
    THEN [tasks |-> [ts EXCEPT ![t].pc = "backoff", ![t].err = message], sem |-> s]
    ELSE LET r == ExitGate(ts, s, t, w)
         IN  [tasks |-> [r.tasks EXCEPT ![t].pc = "failed", ![t].err = message],
              sem |-> r.sem]

\* mutant: a retryable failure is retried however many tries were made
OnTryFailedUnbounded(ts, s, t, message, w) ==
    LET r == ExitGate(ts, s, t, w)
    IN  IF is_retryable_generation_error(message)
        THEN [tasks |-> [r.tasks EXCEPT ![t].pc = "backoff", ![t].err = message],
              sem |-> r.sem]
        ELSE [tasks |-> [r.tasks EXCEPT ![t].pc = "failed", ![t].err = message],
              sem |-> r.sem]

\* mutant: every failure is retried while tries remain, whatever its class
OnTryFailedRetryAll(ts, s, t, message, w) ==
    LET r == ExitGate(ts, s, t, w)
    IN  IF ts[t].attempt < NumDelays
        THEN [tasks |-> [r.tasks EXCEPT ![t].pc = "backoff", ![t].err = message],
              sem |-> r.sem]
        ELSE [tasks |-> [r.tasks EXCEPT ![t].pc = "failed", ![t].err = message],
              sem |-> r.sem]

\* mutant: the first failure is re-raised whatever its class
OnTryFailedNoRetry(ts, s, t, message, w) ==
    LET r == ExitGate(ts, s, t, w)
    IN  [tasks |-> [r.tasks EXCEPT ![t].pc = "failed", ![t].err = message],
         sem |-> r.sem]

\* `except Exception as exc` of the retry loop, after the with block was left:
\* back off and go round again, or re-raise
OnTryFailed(ts, s, t, message, w) ==
    LET should_retry == is_retryable_generation_error(message)
        r == ExitGate(ts, s, t, w)
    IN  IF ts[t].attempt < NumDelays /\ should_retry
        THEN [tasks |-> [r.tasks EXCEPT ![t].pc = "backoff", ![t].err = message],
              sem |-> r.sem]
        ELSE [tasks |-> [r.tasks EXCEPT ![t].pc = "failed", ![t].err = message],
              sem |-> r.sem]

\* `return await runner()` with k >= 1 locators in the response
OnTrySucceeded(ts, s, t, k, w) ==
    LET r == ExitGate(ts, s, t, w)
    IN  [tasks |-> [r.tasks EXCEPT ![t].pc = "ok",
                                   ![t].urls = IF ts[t].batch THEN k ELSE 1,
                                   ![t].order = 1 + Cardinality(
                                       {u \in DOMAIN ts : ts[u].pc = "ok"})],
         sem |-> r.sem]

\* mutant: acquire()/release() written by hand with the release on the normal
\* and `except Exception` paths only, which CancelledError bypasses
OnCancelledLeaky(ts, s, t) ==
    [tasks |-> [ts EXCEPT ![t].pc = "cancelled"], sem |-> s]

\* CancelledError thrown into attempt t at its await: it is no Exception, so
\* only the with block's exit runs.  Every other attempt has been cancelled in
\* the same sweep, so release() finds no waiter to wake.
OnCancelled(ts, s, t) ==
    IF Inside(ts[t])
    THEN LET r == ExitGate(ts, s, t, 0)
         IN  [tasks |-> [r.tasks EXCEPT ![t].pc = "cancelled"], sem |-> r.sem]
    ELSE [tasks |-> [ts EXCEPT ![t].pc = "cancelled"], sem |-> s]

RECURSIVE CancelAll(_, _, _)
CancelAll(ts, s, t) ==
    IF t \notin DOMAIN ts THEN [tasks |-> ts, sem |-> s]
    ELSE LET r == IF Live(ts[t]) THEN OnCancelled(ts, s, t)
                  ELSE [tasks |-> ts, sem |-> s]
         IN  CancelAll(r.tasks, r.sem, t + 1)

(* ------------------------ text2image fan-out -------------------------- *)
\* for provider_name in provider_names: for _ in range(num_candidates):
\*     tasks.append(asyncio.create_task(_generate_single(provider_name)))
\* and, once gather suspends the caller, each task's first run in that order
RECURSIVE CreateTasksT2I(_, _, _)
CreateTasksT2I(ts, s, t) ==
    IF t \notin DOMAIN ts THEN [tasks |-> ts, sem |-> s]
    ELSE LET r == IF IsRegistered(ProviderOf(t))
                  THEN FirstStep(ts, s, t, FALSE)
                  ELSE [tasks |-> [ts EXCEPT ![t] =
                                     [NoTask EXCEPT !.pc = "failed",
                                                    !.err = "unknown provider"]],
                        sem |-> s]
         IN  CreateTasksT2I(r.tasks, r.sem, t + 1)

\* a generated image: who produced it, from which attempt, the locator at which
\* position of that attempt's response, and metadata["sequence_index"] (the
\* single-call branches write one in group mode only, which is left out)
Image(t, k) ==
    [provider |-> get_provider(ProviderOf(t)).name, task |-> t, seq |-> k,
     sequence_index |-> <<>>]

\* mutant: the filtering loop stops one result early
RECURSIVE KeepImagesOffByOne(_, _, _)
KeepImagesOffByOne(ts, t, last) ==
    IF t >= last THEN <<>>
    ELSE (IF ts[t].pc = "ok" THEN <<Image(t, 0)>> ELSE <<>>)
         \o KeepImagesOffByOne(ts, t + 1, last)

\* results = await asyncio.gather(*tasks, return_exceptions=True), then the
\* loop that skips the exceptions
RECURSIVE KeepImages(_, _, _)
KeepImages(ts, t, last) ==
    IF t > last THEN <<>>
    ELSE (IF ts[t].pc = "ok" THEN <<Image(t, 0)>> ELSE <<>>)
         \o KeepImages(ts, t + 1, last)

\* mutant: gather without return_exceptions=True re-raises the first failure
GatherT2IFailFast(ts) ==
    [raised |-> \E t \in DOMAIN ts : ts[t].pc = "failed",
     images |-> IF \E t \in DOMAIN ts : ts[t].pc = "failed" THEN <<>>
                ELSE [j \in 1..Len(providers) * num |-> Image(j, 0)]]

\* mutant: the results are collected as the attempts complete
\* (asyncio.as_completed) instead of in the order of the tasks list
GatherT2IAsCompleted(ts) ==
    LET done == {t \in DOMAIN ts : ts[t].pc = "ok"}
    IN  [raised |-> FALSE,
         images |-> [j \in 1..Cardinality(done) |->
                       Image(CHOOSE t \in done : ts[t].order = j, 0)]]

GatherT2I(ts) == [raised |-> FALSE, images |-> KeepImages(ts, 1, Len(providers) * num)]

(* ----------------------- image2image provider loop -------------------- *)
Max(a, b) == IF a >= b THEN a ELSE b
Min(a, b) == IF a <= b THEN a ELSE b

\* capped_variations = max(1, min(num_variations, 15))
capped_variations == Max(1, Min(num, VariationCap))

\* provider.name == "doubao_seedream" and capped_variations > 1
UsesBatch(i) ==
    get_provider(providers[i]).name = "doubao_seedream" /\ capped_variations > 1

FirstSlot(i) == (i - 1) * num + 1

\* tasks = [asyncio.create_task(_generate_single()) for _ in range(num_variations)]
\* and each task's first run, in that order
RECURSIVE CreateTasksI2I(_, _, _, _)
CreateTasksI2I(ts, s, t, last) ==
    IF t > last THEN [tasks |-> ts, sem |-> s]
    ELSE LET r == FirstStep(ts, s, t, FALSE)
         IN  CreateTasksI2I(r.tasks, r.sem, t + 1, last)

\* the attempts of provider i that its gather awaits: tasks[:capped_variations]
Gathered(i) ==
    IF UsesBatch(i) THEN {FirstSlot(i)}
    ELSE {t \in SlotsOf(i) : t - FirstSlot(i) < capped_variations}

\* mutant: enumerate(delivered, start=1)
RECURSIVE DeliveredOneBased(_, _, _)
DeliveredOneBased(t, k, n) ==
    IF k >= n THEN <<>>
    ELSE <<[Image(t, k) EXCEPT !.sequence_index = <<k + 1>>]>>
         \o DeliveredOneBased(t, k + 1, n)

\* delivered = urls[:capped_variations]; `for index, url in enumerate(delivered)`
\* appends each locator tagged with its index
RECURSIVE Delivered(_, _, _)
Delivered(t, k, n) ==
    IF k >= n THEN <<>>
    ELSE <<[Image(t, k) EXCEPT !.sequence_index = <<k>>]>> \o Delivered(t, k + 1, n)

\* mutant: a batch response with fewer locators than asked for is discarded
generated_images_strict(ts, i) ==
    IF UsesBatch(i)
    THEN IF ts[FirstSlot(i)].pc = "ok" /\ ts[FirstSlot(i)].urls >= capped_variations
         THEN Delivered(FirstSlot(i), 0, capped_variations)
         ELSE <<>>
    ELSE KeepImages(ts, FirstSlot(i), FirstSlot(i) + Min(num, capped_variations) - 1)

\* generated_images of provider i once its attempts have ended
generated_images(ts, i) ==
    IF UsesBatch(i)
    THEN IF ts[FirstSlot(i)].pc = "ok"
         THEN Delivered(FirstSlot(i), 0, Min(ts[FirstSlot(i)].urls, capped_variations))
         ELSE <<>>
    ELSE KeepImages(ts, FirstSlot(i), FirstSlot(i) + Min(num, capped_variations) - 1)

\* the head of the loop body `for provider_id in providers:` for position i,
\* up to its first await; past the last provider, `return generated`
LoopHead(ts, s, i) ==
    IF i > Len(providers)
    THEN [tasks |-> ts, sem |-> s, cur |-> i, gen |-> "returned"]
    ELSE IF ~IsRegistered(providers[i])
    THEN [tasks |-> ts, sem |-> s, cur |-> i, gen |-> "raised"]
    ELSE LET r == IF UsesBatch(i)
                  THEN FirstStep(ts, s, FirstSlot(i), TRUE)
                  ELSE CreateTasksI2I(ts, s, FirstSlot(i), FirstSlot(i) + num - 1)
         IN  [tasks |-> r.tasks, sem |-> r.sem, cur |-> i, gen |-> "running"]

\* provider calls of the run that have failed so far
RECURSIVE FailedCalls(_, _)
FailedCalls(ts, t) ==
    IF t \notin DOMAIN ts THEN 0
    ELSE (ts[t].calls - (IF ts[t].pc \in {"ok", "calling"} THEN 1 ELSE 0))
         + FailedCalls(ts, t + 1)

\* mutant: the empty candidate list is not checked
after_generate_unchecked(g, imgs) ==
    IF g = "raised" THEN "failed" ELSE "evaluate"

\* run_*_pipeline after `await _generate_candidates(...)`: an exception of the
\* generator, or `if not candidates: raise RuntimeError(...)`, lands in the
\* pipeline's own `except Exception` and becomes the failed result
after_generate(g, imgs) ==
    IF g = "raised" \/ imgs = <<>> THEN "failed" ELSE "evaluate"

(* ------------------------------- Init --------------------------------- *)
NoSelection == [image |-> 0, evaluation |-> <<>>, raised |-> FALSE, done |-> "no"]
NoSelInput == [candidates |-> <<>>, evaluations |-> <<>>]

\* score_candidates not called; no pipeline run
NoAggInput == [images |-> <<>>, modules |-> <<>>]
NoAggOutput == [phase |-> "idle"]
NoPipe == [entry |-> "none"]

Requests ==
    {r \in [kind : {"t2i", "i2i"},
            providers : SeqsUpTo(ProviderIds, MaxProviders) \ {<<>>},
            num : 1..MaxVariations] : Len(r.providers) * r.num <= MaxTasks}

Init ==
    /\ \E r \in Requests :
          /\ kind = r.kind
          /\ providers = r.providers
          /\ num = r.num
    /\ tasks = [t \in TaskIds |-> NoTask]
    /\ sem = provider_limits
    /\ cur = 0
    /\ gen = "init"
    /\ images = <<>>
    /\ run = "generate"
    /\ sel_in = NoSelInput
    /\ sel_out = NoSelection
    /\ agg_in = NoAggInput
    /\ agg_out = NoAggOutput
    /\ pipe = NoPipe

(* ------------------------------ actions ------------------------------- *)
\* text2image._generate_candidates, from its call to `await asyncio.gather`
StartT2I ==
    /\ kind = "t2i" /\ gen = "init"
    /\ LET r == CreateTasksT2I(tasks, sem, 1)
       IN  tasks' = r.tasks /\ sem' = r.sem
    /\ gen' = "running"
    /\ UNCHANGED <<kind, providers, num, cur, images, run, selVars, aggVars, pipe>>

\* image2image._generate_candidates, from its call to the first await
StartI2I ==
    /\ kind = "i2i" /\ gen = "init"
    /\ LET r == LoopHead(tasks, sem, 1)
       IN  tasks' = r.tasks /\ sem' = r.sem /\ cur' = r.cur /\ gen' = r.gen
    /\ UNCHANGED <<kind, providers, num, images, run, selVars, aggVars, pipe>>

\* asyncio.sleep(0.1 + random.uniform(0, 0.1)) returns; runner() calls the provider
SpacingDone(t) ==
    /\ gen = "running" /\ tasks[t].pc = "spacing"
    /\ tasks' = [tasks EXCEPT ![t].pc = "calling", ![t].calls = @ + 1]
    /\ UNCHANGED <<kind, providers, num, sem, cur, gen, images, run, selVars, aggVars, pipe>>

\* provider.generate() returns a response with k locators; none is a RuntimeError
CallReturns(t) ==
    /\ gen = "running" /\ tasks[t].pc = "calling"
    /\ \E k \in 0..MaxUrls, w \in Wakeable(tasks, ProviderOf(t)) :
          /\ k = 0 => FailedCalls(tasks, 1) < MaxFailures
          /\ LET r == IF k = 0 THEN OnTryFailed(tasks, sem, t, NoImageMessage, w)
                   ELSE OnTrySucceeded(tasks, sem, t, k, w)
             IN  tasks' = r.tasks /\ sem' = r.sem
    /\ UNCHANGED <<kind, providers, num, cur, gen, images, run, selVars, aggVars, pipe>>

\* provider.generate() raises
CallFails(t) ==
    /\ gen = "running" /\ tasks[t].pc = "calling"
    /\ FailedCalls(tasks, 1) < MaxFailures
    /\ \E m \in ErrorMessages, w \in Wakeable(tasks, ProviderOf(t)) :
          LET r == OnTryFailed(tasks, sem, t, m, w)
          IN  tasks' = r.tasks /\ sem' = r.sem
    /\ UNCHANGED <<kind, providers, num, cur, gen, images, run, selVars, aggVars, pipe>>

\* asyncio.sleep(backoff) returns; `continue` re-enters the with block
BackoffDone(t) ==
    /\ gen = "running" /\ tasks[t].pc = "backoff"
    /\ LET r == Enter([tasks EXCEPT ![t].attempt = @ + 1], sem, t)
       IN  tasks' = r.tasks /\ sem' = r.sem
    /\ UNCHANGED <<kind, providers, num, cur, gen, images, run, selVars, aggVars, pipe>>

\* text2image: gather has every result; the images are filtered and returned
ReturnT2I ==
    /\ kind = "t2i" /\ gen = "running"
    /\ \A t \in TaskIds : Ended(tasks[t])
    /\ LET g == GatherT2I(tasks)
       IN  IF g.raised THEN gen' = "raised" /\ images' = images
           ELSE gen' = "returned" /\ images' = g.images
    /\ UNCHANGED <<kind, providers, num, tasks, sem, cur, run, selVars, aggVars, pipe>>

\* image2image: the attempts of provider cur have ended.  With no image the loop
\* continues at once; otherwise score_candidates() is awaited
FinishProvider ==
    /\ kind = "i2i" /\ gen = "running"
    /\ \A t \in Gathered(cur) : Ended(tasks[t])
    /\ IF generated_images(tasks, cur) = <<>>
       THEN LET r == LoopHead(tasks, sem, cur + 1)
            IN  tasks' = r.tasks /\ sem' = r.sem /\ cur' = r.cur /\ gen' = r.gen
       ELSE gen' = "scoring" /\ UNCHANGED <<tasks, sem, cur>>
    /\ UNCHANGED <<kind, providers, num, images, run, selVars, aggVars, pipe>>

\* image2image: scoring and verification of provider cur are back; its images
\* are appended to `generated` and the loop goes on
ScoreProvider ==
    /\ kind = "i2i" /\ gen = "scoring"
    /\ images' = images \o generated_images(tasks, cur)
    /\ LET r == LoopHead(tasks, sem, cur + 1)
       IN  tasks' = r.tasks /\ sem' = r.sem /\ cur' = r.cur /\ gen' = r.gen
    /\ UNCHANGED <<kind, providers, num, run, selVars, aggVars, pipe>>

\* the run is cancelled while _generate_candidates is suspended: CancelledError
\* reaches every attempt still alive and leaves through run_*_pipeline
CancelRun ==
    /\ gen \in {"running", "scoring"}
    /\ LET r == CancelAll(tasks, sem, 1)
       IN  tasks' = r.tasks /\ sem' = r.sem
    /\ gen' = "cancelled" /\ run' = "cancelled"
    /\ UNCHANGED <<kind, providers, num, cur, images, selVars, aggVars, pipe>>

\* run_*_pipeline resumes after `await _generate_candidates(...)`
AfterGenerate ==
    /\ run = "generate" /\ gen \in {"returned", "raised"}
    /\ run' = after_generate(gen, images)
    /\ UNCHANGED <<kind, providers, num, tasks, sem, cur, gen, images, selVars, aggVars, pipe>>

Next ==
    \/ StartT2I
    \/ StartI2I
    \/ \E t \in TaskIds : SpacingDone(t)
    \/ \E t \in TaskIds : CallReturns(t)
    \/ \E t \in TaskIds : CallFails(t)
    \/ \E t \in TaskIds : BackoffDone(t)
    \/ ReturnT2I
    \/ FinishProvider
    \/ ScoreProvider
    \/ CancelRun
    \/ AfterGenerate

Spec == Init /\ [][Next]_vars

TypeOK ==
    /\ kind \in {"t2i", "i2i", "select", "score", "run", "review"}
    /\ \A p \in DOMAIN sem : sem[p] \in 0..1
    /\ \A t \in DOMAIN tasks : tasks[t].attempt \in 0..NumDelays
    /\ \A t \in DOMAIN tasks : tasks[t].order \in 0..MaxTasks
    /\ gen \in {"init", "running", "scoring", "returned", "raised", "cancelled"}
    /\ run \in {"generate", "evaluate", "failed", "cancelled", "select", "score", "run",
               "review"}

(* ------------------------------ selector ------------------------------ *)
\* locators of the candidates handed to the selector
Urls == {"u1", "u2", "u3"}
\* scores, in tenths
ScoreValues == {0, 4, 9}
CompositeValues == {0, 9}

\* an Optional value: None is <<>>, a value x is <<x>>
None == <<>>
Some(x) == <<x>>

\* ImageEvaluation: module_scores (its "holistic" entry, when it has one) and
\* composite_score
Evaluations ==
    [module_scores : UNION {[S -> ScoreValues] : S \in SUBSET {"holistic"}},
     composite_score : CompositeValues]

\* Optional[Dict[str, ImageEvaluation]]: None, or a dict keyed by some locators
EvaluationMaps ==
    {None} \cup {Some(m) : m \in UNION {[S -> Evaluations] : S \in SUBSET Urls}}

\* `not evaluations`: None or the empty dict
IsFalsy(evals) == evals = None \/ DOMAIN evals[1] = {}

\* evaluations.get(url)
EvalGet(evals, url) ==
    IF evals = None THEN None
    ELSE IF url \in DOMAIN evals[1] THEN Some(evals[1][url]) ELSE None

\* evaluation.module_scores.get("holistic")
HolisticOf(evaluation) ==
    IF "holistic" \in DOMAIN evaluation.module_scores
    THEN Some(evaluation.module_scores["holistic"]) ELSE None

\* mutant: the key is the composite score even when holistic has a score
composite_for_composite_only(evals, url) ==
    LET evaluation == EvalGet(evals, url) IN
    IF evaluation = None THEN 0 ELSE evaluation[1].composite_score

\* SelectorService.select_best.composite_for
composite_for(evals, url) ==
    LET evaluation == EvalGet(evals, url) IN
    IF evaluation = None THEN 0
    ELSE IF HolisticOf(evaluation[1]) # None THEN HolisticOf(evaluation[1])[1]
    ELSE evaluation[1].composite_score

\* mutant: a later candidate replaces the best one when its key is equal
RECURSIVE max_by_last(_, _, _, _)
max_by_last(cands, evals, i, best) ==
    IF i > Len(cands) THEN best
    ELSE IF composite_for(evals, cands[i]) >= composite_for(evals, cands[best])
    THEN max_by_last(cands, evals, i + 1, i)
    ELSE max_by_last(cands, evals, i + 1, best)

\* max(candidates, key=composite_for): the builtin keeps the item it holds
\* unless a later key is strictly greater.  The position is returned.
RECURSIVE max_by(_, _, _, _)
max_by(cands, evals, i, best) ==
    IF i > Len(cands) THEN best
    ELSE IF composite_for(evals, cands[i]) > composite_for(evals, cands[best])
    THEN max_by(cands, evals, i + 1, i)
    ELSE max_by(cands, evals, i + 1, best)

\* mutant: an empty candidate list is answered with an empty selection
select_best_empty_ok(cands, evals) ==
    IF cands = <<>> \/ IsFalsy(evals)
    THEN [image |-> IF cands = <<>> THEN 0 ELSE 1, evaluation |-> None,
          raised |-> FALSE, done |-> "select_best"]
    ELSE LET best == max_by(cands, evals, 2, 1)
         IN  [image |-> best, evaluation |-> EvalGet(evals, cands[best]),
              raised |-> FALSE, done |-> "select_best"]

\* mutant: without evaluations the last candidate is returned
select_best_fallback_last(cands, evals) ==
    IF cands = <<>>
    THEN [image |-> 0, evaluation |-> None, raised |-> TRUE, done |-> "select_best"]
    ELSE IF IsFalsy(evals)
    THEN [image |-> Len(cands), evaluation |-> None, raised |-> FALSE,
          done |-> "select_best"]
    ELSE LET best == max_by(cands, evals, 2, 1)
         IN  [image |-> best, evaluation |-> EvalGet(evals, cands[best]),
              raised |-> FALSE, done |-> "select_best"]

\* SelectorService.select_best
select_best(cands, evals) ==
    IF cands = <<>>
    THEN [image |-> 0, evaluation |-> None, raised |-> TRUE, done |-> "select_best"]
    ELSE IF IsFalsy(evals)
    THEN [image |-> 1, evaluation |-> None, raised |-> FALSE, done |-> "select_best"]
    ELSE LET best == max_by(cands, evals, 2, 1)
         IN  [image |-> best, evaluation |-> EvalGet(evals, cands[best]),
              raised |-> FALSE, done |-> "select_best"]

\* image2image._select_best_image: the loop over the candidates; -1 stands
\* for best_score = -1.0, position 0 for best = None
RECURSIVE best_image_loop(_, _, _, _, _)
best_image_loop(cands, evals, i, best, best_score) ==
    IF i > Len(cands) THEN best
    ELSE LET evaluation == EvalGet(evals, cands[i])
             score == IF evaluation = None THEN 0 ELSE evaluation[1].composite_score
         IN  IF score > best_score
             THEN best_image_loop(cands, evals, i + 1, i, score)
             ELSE best_image_loop(cands, evals, i + 1, best, best_score)

select_best_image(cands, evals) ==
    LET best == best_image_loop(cands, evals, 1, 0, -1)
    IN  [image |-> best,
         evaluation |-> IF best = 0 THEN None ELSE EvalGet(evals, cands[best]),
         raised |-> FALSE, done |-> "select_best_image"]

SelectorInputs ==
    [candidates : SeqsUpTo(Urls, MaxCands), evaluations : EvaluationMaps]

InitSelect ==
    /\ kind = "select"
    /\ providers = <<>>
    /\ num = 1
    /\ tasks = <<>>
    /\ sem = <<>>
    /\ cur = 0
    /\ gen = "init"
    /\ images = <<>>
    /\ run = "select"
    /\ sel_in \in SelectorInputs
    /\ sel_out = NoSelection
    /\ agg_in = NoAggInput
    /\ agg_out = NoAggOutput
    /\ pipe = NoPipe

\* text2image._select_best: await selector.select_best(...)
SelectBest ==
    /\ kind = "select" /\ sel_out.done = "no"
    /\ sel_out' = select_best(sel_in.candidates, sel_in.evaluations)
    /\ UNCHANGED <<genVars, sel_in, aggVars, pipe>>

\* run_image2image_pipeline: best = _select_best_image(all_candidates)
SelectBestImage ==
    /\ kind = "select" /\ sel_out.done = "no"
    /\ sel_out' = select_best_image(sel_in.candidates, sel_in.evaluations)
    /\ UNCHANGED <<genVars, sel_in, aggVars, pipe>>

NextSelect ==
    \/ SelectBest
    \/ SelectBestImage

SpecSelect == InitSelect /\ [][NextSelect]_vars

(* -------------------------- scoring aggregator ------------------------ *)
\* longest image list handed to score_candidates
MaxScored == 2

\* scores are kept in thousandths: round(x, 3) of a value in [0, 1]
\* raw scores of the vision evaluator's reply, on its 0-10 scale
RawScores == {-1, 4, 5, 6, 12}
\* raw values of the MNet reply, in tenths: -0.5, 0.5, 5, 50 and 500
MNetValues == {-5, 5, 50, 500, 5000}

\* module_name of the services ScoringAggregator registers, in registration order
RegisteredModules ==
    <<"holistic", "color_score", "contrast_score", "clarity_eval", "noise_eval",
      "quality_score">>

\* the `modules` arguments explored: none, registered names in and out of
\* alphabetical order, a name twice, and a name no service has
ModuleRequests ==
    {<<>>, <<"holistic">>, <<"clarity_eval">>, <<"holistic", "clarity_eval">>,
     <<"bogus">>, <<"noise_eval", "bogus", "holistic">>,
     <<"clarity_eval", "clarity_eval">>}

\* the order of str on the module names and provider ids, as sorted() uses it
NameRank(name) ==
    CASE name = "bogus" -> 0
      [] name = "clarity_eval" -> 1
      [] name = "color_score" -> 2
      [] name = "contrast_score" -> 3
      [] name = "doubao_seedream" -> 4
      [] name = "ghost" -> 5
      [] name = "holistic" -> 6
      [] name = "noise_eval" -> 7
      [] name = "quality_score" -> 8
      [] name = "qwen" -> 9

\* sorted(modules_union)
RECURSIVE sorted(_)
sorted(S) ==
    IF S = {} THEN <<>>
    ELSE LET first == CHOOSE x \in S : \A y \in S : NameRank(x) <= NameRank(y)
         IN  <<first>> \o sorted(S \ {first})

RECURSIVE KnownModules(_, _)
KnownModules(modules, i) ==
    IF i > Len(modules) THEN <<>>
    ELSE (IF modules[i] \in Range(RegisteredModules) THEN <<modules[i]>> ELSE <<>>)
         \o KnownModules(modules, i + 1)

\* mutant: a request that names no registered module selects no service
select_services_no_fallback(modules) ==
    IF modules = <<>> THEN RegisteredModules ELSE KnownModules(modules, 1)

\* mutant: the request is ignored and every registered service is selected
select_services_all(modules) == RegisteredModules

\* ScoringAggregator._select_services: the names of the services returned
select_services(modules) ==
    IF modules = <<>> THEN RegisteredModules
    ELSE LET selected == KnownModules(modules, 1)
         IN  IF selected = <<>> THEN RegisteredModules ELSE selected

\* mutant: the scaled value is returned without the clamp
normalize_score_unclamped(value) ==
    IF value = None THEN None ELSE Some(value[1] * 100)

\* DoubaoAestheticClient._normalize_score: None for a missing or non-numeric
\* value, otherwise the 0-10 value scaled to [0, 1]
normalize_score(value) ==
    IF value = None THEN None
    ELSE LET numeric == IF value[1] < 0 THEN 0 ELSE value[1]
         IN  IF numeric > 10 THEN Some(1000)
             ELSE Some(Max(0, Min(numeric * 100, 1000)))

\* payload.get(key)
PayloadGet(payload, key) ==
    IF key \in DOMAIN payload THEN Some(payload[key]) ELSE None

\* the reply keys mapped to a module, first the current names, then the legacy ones
SourceKeys(target) ==
    CASE target = "quality_score" -> <<"prompt_adherence", "emotional_impact">>
      [] target = "clarity_eval" -> <<"anatomical_integrity", "clarity_integrity">>
      [] target = "contrast_score" -> <<"physical_logic", "composition">>
      [] target = "noise_eval" -> <<"cleanliness", "style_coherence">>
      [] target = "color_score" -> <<"aesthetic_value", "light_color", "aesthetic_score">>

MappedTargets ==
    {"quality_score", "clarity_eval", "contrast_score", "noise_eval", "color_score"}

\* the loop over mapping_priority for one target: the first source key whose
\* value normalises to a score wins
RECURSIVE FirstScore(_, _, _)
FirstScore(payload, keys, i) ==
    IF i > Len(keys) THEN None
    ELSE LET value == normalize_score(PayloadGet(payload, keys[i]))
         IN  IF value # None THEN value ELSE FirstScore(payload, keys, i + 1)

\* mutant: _map_scores without the clarity rule
map_scores_uncapped(payload) ==
    LET final_score == normalize_score(PayloadGet(payload, "final_score"))
        names == {t \in MappedTargets : FirstScore(payload, SourceKeys(t), 1) # None}
                     \cup (IF final_score # None THEN {"holistic"} ELSE {})
        scores == [n \in names |->
                      IF n = "holistic" THEN final_score[1]
                      ELSE FirstScore(payload, SourceKeys(n), 1)[1]]
    IN  IF names = {} THEN None ELSE Some(scores)

\* DoubaoAestheticClient._map_scores: the scores of DoubaoAestheticResult, None
\* when the reply carries no score
map_scores(payload) ==
    LET final_score == normalize_score(PayloadGet(payload, "final_score"))
        names == {t \in MappedTargets : FirstScore(payload, SourceKeys(t), 1) # None}
                     \cup (IF final_score # None THEN {"holistic"} ELSE {})
        scores == [n \in names |->
                      IF n = "holistic" THEN final_score[1]
                      ELSE FirstScore(payload, SourceKeys(n), 1)[1]]
        capped == IF /\ "clarity_eval" \in names /\ "holistic" \in names
                     /\ scores["clarity_eval"] < 600 /\ scores["holistic"] > 500
                  THEN [scores EXCEPT !["holistic"] = 400]
                  ELSE scores
    IN  IF names = {} THEN None ELSE Some(capped)

\* the keys of the evaluator's reply that are explored
PayloadKeys == {"final_score", "anatomical_integrity"}

\* what one call of the vision evaluator comes to: an exception, no result
\* (client disabled, retries used up, no JSON in the reply) or a parsed reply
DoubaoOutcomes ==
    {[kind |-> "error", payload |-> <<>>], [kind |-> "none", payload |-> <<>>]}
        \cup {[kind |-> "reply", payload |-> f] :
                f \in UNION {[S -> RawScores] : S \in SUBSET PayloadKeys}}

\* what one call of the MNet service comes to: a failure or a raw value
MNetOutcomes == {None} \cup {Some(v) : v \in MNetValues}

\* DoubaoAestheticClient.evaluate: an image without a locator is not sent
evaluate(url, outcome) ==
    IF url = "" \/ outcome.kind = "none" THEN [raised |-> FALSE, result |-> None]
    ELSE IF outcome.kind = "error" THEN [raised |-> TRUE, result |-> None]
    ELSE [raised |-> FALSE, result |-> map_scores(outcome.payload)]

\* mutant: the evaluator's exception is not caught
fetch_doubao_scores_uncaught(url, outcome) == evaluate(url, outcome)

\* ScoringAggregator._fetch_doubao_scores: `except Exception` -> None
fetch_doubao_scores(url, outcome) ==
    IF evaluate(url, outcome).raised THEN [raised |-> FALSE, result |-> None]
    ELSE evaluate(url, outcome)

\* HolisticScoreService._clamp_score, on a value in tenths
clamp_score(value) ==
    IF value < 0 THEN 0
    ELSE IF value <= 10 THEN 100 + Max(0, Min(10, value)) * 90
    ELSE IF value <= 100 THEN value * 10
    ELSE IF value <= 1000 THEN value
    ELSE 1000

\* mutant: a failed MNet call is scored 1.0
holistic_score_failure_is_one(url, mnet) ==
    IF url = "" \/ mnet = None THEN 1000 ELSE clamp_score(mnet[1])

\* HolisticScoreService.score: any failure (no locator, transport, no score
\* field in the reply) is logged and scored 0.0
holistic_score(url, mnet) ==
    IF url = "" \/ mnet = None THEN 0 ELSE clamp_score(mnet[1])

\* stands for int(sha256(f"{task_id}:{url}:{offset}").hexdigest()[:8], 16): a
\* fixed number for each locator and offset
UrlNo(url) ==
    CASE url = "" -> 0 [] url = "u1" -> 1 [] url = "u2" -> 2 [] url = "u3" -> 3

Sha256Prefix(url, offset) == 104729 * UrlNo(url) + 7919 * offset + 611

\* services.scoring.utils.deterministic_score
deterministic_score(url, offset) == Sha256Prefix(url, offset) % 1000

\* service.score(task_id, image) of the registered service of that name
service_score(name, url, mnet) ==
    CASE name = "holistic" -> holistic_score(url, mnet)
      [] name = "color_score" -> deterministic_score(url, 1)
      [] name = "contrast_score" -> deterministic_score(url, 2)
      [] name = "clarity_eval" -> deterministic_score(url, 3)
      [] name = "noise_eval" -> 1000 - deterministic_score(url, 4)
      [] name = "quality_score" -> deterministic_score(url, 5)

\* mutant: every selected service is run and its score stored last
score_single_overwriting(url, services, outcome, mnet) ==
    LET fetched == fetch_doubao_scores(url, outcome)
        from_doubao == IF fetched.result = None THEN {}
                       ELSE DOMAIN fetched.result[1] \cap Range(services)
    IN  [raised |-> fetched.raised,
         module_scores |-> [n \in Range(services) |-> service_score(n, url, mnet)],
         ran |-> Range(services),
         external |-> fetched.result]

\* ScoringAggregator._score_single: the evaluator first, then every selected
\* service whose module has no score yet
score_single(url, services, outcome, mnet) ==
    LET requested_modules == Range(services)
        merged(fetched) ==
            LET doubao_result == fetched.result
                from_doubao ==
                    IF doubao_result = None THEN {}
                    ELSE {n \in DOMAIN doubao_result[1] :
                            requested_modules = {} \/ n \in requested_modules}
                to_run == {services[i] : i \in DOMAIN services} \ from_doubao
            IN  [raised |-> fetched.raised,
                 module_scores |-> [n \in from_doubao \cup to_run |->
                                      IF n \in from_doubao THEN doubao_result[1][n]
                                      ELSE service_score(n, url, mnet)],
                 ran |-> to_run,
                 external |-> doubao_result]
    IN  merged(fetch_doubao_scores(url, outcome))

\* mutant: the composite is the best of all module scores
primary_score_best_of_all(module_scores) ==
    IF DOMAIN module_scores = {} THEN 0
    ELSE CHOOSE v \in Range(module_scores) : \A w \in Range(module_scores) : v >= w

\* ScoringAggregator._primary_score
primary_score(module_scores) ==
    IF "holistic" \in DOMAIN module_scores THEN module_scores["holistic"] ELSE 0

\* ImageEvaluation(module_scores, composite_score)
ImageEvaluation(module_scores) ==
    [module_scores |-> module_scores, composite_score |-> primary_score(module_scores)]

\* mutant: result.setdefault(image.url, ...) keeps the entry that is there
DictSetDefault(d, key, value) ==
    [k \in DOMAIN d \cup {key} |-> IF k \in DOMAIN d THEN d[k] ELSE value]

\* result[image.url] = ...
DictSet(d, key, value) ==
    [k \in DOMAIN d \cup {key} |-> IF k = key THEN value ELSE d[k]]

\* mutant: the modules that were asked for are reported
modules_used_requested(modules_union, modules) == modules

\* modules_used=sorted(modules_union)
modules_used(modules_union, modules) == sorted(modules_union)

\* mutant: the result map gets an empty entry for every image before any of
\* them is scored
ScoreStartPrefilled(input) ==
    LET services == select_services(input.modules) IN
    IF input.images = <<>>
    THEN [phase |-> "returned", pos |-> 1, services |-> services, result |-> <<>>,
          modules_union |-> {}, modules_used |-> modules_used({}, input.modules),
          last |-> <<>>, log |-> <<>>, post_attempt |-> 1]
    ELSE [phase |-> "scoring", pos |-> 1, services |-> services,
          result |-> [u \in Range(input.images) |-> ImageEvaluation(<<>>)],
          modules_union |-> {}, modules_used |-> <<>>, last |-> <<>>, log |-> <<>>,
          post_attempt |-> 1]

\* score_candidates from its call to its first await; an empty image list is
\* answered at once
ScoreStart(input) ==
    LET services == select_services(input.modules) IN
    IF input.images = <<>>
    THEN [phase |-> "returned", pos |-> 1, services |-> services, result |-> <<>>,
          modules_union |-> {}, modules_used |-> modules_used({}, input.modules),
          last |-> <<>>, log |-> <<>>, post_attempt |-> 1]
    ELSE [phase |-> "scoring", pos |-> 1, services |-> services, result |-> <<>>,
          modules_union |-> {}, modules_used |-> <<>>, last |-> <<>>, log |-> <<>>,
          post_attempt |-> 1]

\* one turn of `for image in images`: _score_single is back; after the last
\* image the AggregationResult is returned
ScoreTurn(input, out, outcome, mnet) ==
    LET url == input.images[out.pos]
        turn(single) ==
            LET union == out.modules_union \cup DOMAIN single.module_scores
                result ==
                    DictSet(out.result, url, ImageEvaluation(single.module_scores))
                seen == [url |-> url, doubao |-> outcome, ran |-> single.ran,
                         mnet |-> IF "holistic" \in single.ran THEN mnet ELSE None,
                         external |-> single.external,
                         module_scores |-> single.module_scores]
                calls == Append(out.log,
                                [doubao |-> outcome.kind,
                                 mnet_failed |-> "holistic" \in single.ran /\ mnet = None,
                                 module_scores |-> single.module_scores])
            IN  IF single.raised
                THEN [out EXCEPT !.phase = "raised", !.last = Some(seen),
                                 !.log = calls, !.post_attempt = 1]
                ELSE IF out.pos = Len(input.images)
                THEN [out EXCEPT !.phase = "returned", !.pos = @ + 1,
                                 !.result = result, !.modules_union = union,
                                 !.modules_used = modules_used(union, input.modules),
                                 !.last = Some(seen), !.log = calls,
                                 !.post_attempt = 1]
                ELSE [out EXCEPT !.pos = @ + 1, !.result = result,
                                 !.modules_union = union, !.last = Some(seen),
                                 !.log = calls, !.post_attempt = 1]
    IN  CHOOSE next \in {turn(single) :
                single \in {score_single(url, out.services, outcome, mnet)}} : TRUE

\* locators of the images that are scored
ScoredUrls == {"u1", "u2"}

AggregatorInputs ==
    [images : SeqsUpTo(ScoredUrls, MaxScored), modules : ModuleRequests]

InitScore ==
    /\ kind = "score"
    /\ providers = <<>>
    /\ num = 1
    /\ tasks = <<>>
    /\ sem = <<>>
    /\ cur = 0
    /\ gen = "init"
    /\ images = <<>>
    /\ run = "score"
    /\ sel_in = NoSelInput
    /\ sel_out = NoSelection
    /\ agg_in \in AggregatorInputs
    /\ agg_out = NoAggOutput
    /\ pipe = NoPipe

\* aggregator.score_candidates(task_id, images, modules) is called
ScoreCandidates ==
    /\ agg_out.phase = "idle" /\ kind = "score"
    /\ agg_out' = ScoreStart(agg_in)
    /\ UNCHANGED <<genVars, selVars, agg_in, pipe>>

\* `await self._score_single(...)` returns for the image at agg_out.pos
ScoreSingle ==
    /\ kind = "score" /\ agg_out.phase = "scoring"
    /\ \E outcome \in DoubaoOutcomes, mnet \in MNetOutcomes :
          agg_out' = ScoreTurn(agg_in, agg_out, outcome, mnet)
    /\ UNCHANGED <<genVars, selVars, agg_in, pipe>>

\* the task that runs score_candidates is cancelled: CancelledError is raised
\* at `await self._score_single(...)` and leaves score_candidates
CancelScoring ==
    /\ kind = "score" /\ agg_out.phase = "scoring"
    /\ agg_out' = [agg_out EXCEPT !.phase = "cancelled"]
    /\ UNCHANGED <<genVars, selVars, agg_in, pipe>>

\* what the caller of score_candidates gets back: the AggregationResult of
\* the return statement, nothing when the call was left by an exception
aggregation_result(out) ==
    IF out.phase = "returned"
    THEN Some([image_results |-> out.result, modules_used |-> out.modules_used])
    ELSE None

NextScore ==
    \/ ScoreCandidates
    \/ ScoreSingle
    \/ CancelScoring

SpecScore == InitScore /\ [][NextScore]_vars

(* ------------------------------ reviewer ------------------------------ *)
\* most candidates handed to the reviewer
MaxReviewed == 3

\* what DoubaoAestheticClient.compare_images comes to: it raises, returns an
\* empty result, or returns the parsed comparison
CompareReplies == {"raise", "empty", "dict"}

NoReview == [review |-> None, calls |-> <<>>]

\* the try block around `await self._doubao_client.compare_images(...)`: one
\* call with image_urls; a ComparativeReview when the result is not empty
compared(image_urls, reply, title) ==
    [review |-> IF reply = "dict" THEN Some([title |-> title, urls |-> image_urls])
                ELSE None,
     calls |-> <<image_urls>>]

\* AestheticReviewer._review_single_image
review_single_image(url, evaluations, reply) ==
    IF EvalGet(evaluations, url) = None THEN NoReview
    ELSE compared(<<url>>, reply, "critique")

\* the positions of the candidates that have an evaluation
ScoredPositions(cands, evaluations) ==
    {j \in DOMAIN cands : EvalGet(evaluations, cands[j]) # None}

\* scored_candidates.sort(key=composite_score, reverse=True) is stable: [0] is
\* the first of the highest, [-1] the last of the lowest
SortedFirst(cands, evaluations) ==
    CHOOSE b \in ScoredPositions(cands, evaluations) :
        \A j \in ScoredPositions(cands, evaluations) :
            LET sb == EvalGet(evaluations, cands[b])[1].composite_score
                sj == EvalGet(evaluations, cands[j])[1].composite_score
            IN  sj < sb \/ (sj = sb /\ b <= j)

SortedLast(cands, evaluations) ==
    CHOOSE l \in ScoredPositions(cands, evaluations) :
        \A j \in ScoredPositions(cands, evaluations) :
            LET sl == EvalGet(evaluations, cands[l])[1].composite_score
                sj == EvalGet(evaluations, cands[j])[1].composite_score
            IN  sj > sl \/ (sj = sl /\ j <= l)

\* AestheticReviewer.review_candidates: the review it returns and the calls of
\* compare_images it makes
review_candidates(cands, evaluations, reply) ==
    IF cands = <<>> THEN NoReview
    ELSE IF IsFalsy(evaluations) THEN NoReview
    ELSE IF Len(cands) = 1 THEN review_single_image(cands[1], evaluations, reply)
    ELSE IF Cardinality(ScoredPositions(cands, evaluations)) < 2 THEN NoReview
    ELSE compared(<<cands[SortedFirst(cands, evaluations)],
                    cands[SortedLast(cands, evaluations)]>>, reply, "comparison")

\* the calls of review_candidates that are explored
ReviewEvaluations ==
    {None} \cup
    {Some(f) : f \in UNION {[S -> {[composite_score |-> c] : c \in {400, 900}}] :
                              S \in SUBSET ScoredUrls}}

ReviewRequests ==
    [entry : {"review"}, stage : {"start"},
     candidates : SeqsUpTo(ScoredUrls, MaxReviewed),
     evaluations : ReviewEvaluations, review : {None}, calls : {<<>>}]

InitReview ==
    /\ kind = "review"
    /\ providers = <<>>
    /\ num = 1
    /\ tasks = <<>>
    /\ sem = <<>>
    /\ cur = 0
    /\ gen = "init"
    /\ images = <<>>
    /\ run = "review"
    /\ sel_in = NoSelInput
    /\ sel_out = NoSelection
    /\ agg_in = NoAggInput
    /\ agg_out = NoAggOutput
    /\ pipe \in ReviewRequests

\* await reviewer.review_candidates(candidates, evaluations)
ReviewCandidates ==
    /\ kind = "review" /\ pipe.stage = "start"
    /\ \E reply \in CompareReplies :
          LET r == review_candidates(pipe.candidates, pipe.evaluations, reply)
          IN  pipe' = [pipe EXCEPT !.stage = "done", !.review = r.review,
                                   !.calls = r.calls]
    /\ UNCHANGED <<genVars, selVars, aggVars>>

NextReview == ReviewCandidates

SpecReview == InitReview /\ [][NextReview]_vars

(* ----------------------------- pipeline runs -------------------------- *)
\* a run of one entry point, seen from its caller.  The generation stage is
\* taken by its outcome: for each requested provider, in request order, the
\* locators of the candidates that survived its attempts.

\* DEFAULT_MODULES of text2image.py and image2image.py
DEFAULT_MODULES ==
    <<"holistic", "color_score", "contrast_score", "clarity_eval", "noise_eval",
      "quality_score">>

\* params.modules / use_modules of the requests explored
RunModules == {<<>>, <<"clarity_eval">>, <<"holistic", "color_score">>}

\* str(exc) of the exceptions the stages raise
NoCandidatesMessage == "generation returned no candidate"
UnknownProviderMessage == "Unknown provider: ghost"
ProviderErrorMessage == "api key missing"
ScoringErrorMessage == "scoring failed"

\* what generation comes to for one requested provider: an unregistered id has
\* no provider to call
ProviderResults ==
    {[provider |-> p, urls |-> u] :
        p \in Registry, u \in SeqsUpTo(ScoredUrls, MaxScored)}
        \cup {[provider |-> "ghost", urls |-> <<>>]}

RECURSIVE TotalUrls(_, _)
TotalUrls(plan, i) ==
    IF i > Len(plan) THEN 0 ELSE Len(plan[i].urls) + TotalUrls(plan, i + 1)

\* GeneratedImage with the AggregationResult.image_results it was scored in
Candidate(url, provider, evaluation) ==
    [url |-> url, provider |-> provider, evaluation |-> evaluation]

NewRun(entry, plan, modules) ==
    [entry |-> entry, plan |-> plan, modules |-> modules, stage |-> "start",
     pos |-> 0, candidates |-> <<>>, to_score |-> <<>>, status |-> "running",
     message |-> "", raised |-> None, best_image_url |-> None,
     best_composite_score |-> None, listed |-> <<>>, review |-> FALSE,
     scores |-> <<>>, modules_used |-> <<>>, providers_used |-> <<>>,
     best_index |-> 0]

RunRequests ==
    {NewRun(entry, plan, modules) :
        entry \in {"text2image", "image2image"},
        plan \in {pl \in SeqsUpTo(ProviderResults, MaxProviders) \ {<<>>} :
                    TotalUrls(pl, 1) <= MaxScored + 1},
        modules \in RunModules}
    \cup {NewRun("aesthetic", <<r>>, modules) :
            r \in ProviderResults, modules \in RunModules}

\* an exception reaches the top of the entry point.  run_text2image_pipeline
\* and run_image2image_pipeline end in `except Exception as exc`, which returns
\* {"status": "failed", "message": str(exc)}; handle_generate has no handler
on_exception(p, message) ==
    IF p.entry \in {"text2image", "image2image"}
    THEN [p EXCEPT !.stage = "done", !.status = "failed", !.message = message,
                   !.raised = Some(message)]
    ELSE [p EXCEPT !.stage = "done", !.status = "propagated",
                   !.raised = Some(message)]

\* evaluation.image_results.get(image.url) if evaluation else None
EvaluationOf(c) == EvalGet(c.evaluation, c.url)

CompositeOf(c) ==
    IF EvaluationOf(c) = None THEN None
    ELSE Some(EvaluationOf(c)[1].composite_score)

UrlsOf(cands) == [j \in DOMAIN cands |-> cands[j].url]

\* mutant: the provider of every candidate, repeated and in candidate order
providers_used_per_candidate(cands) == [j \in DOMAIN cands |-> cands[j].provider]

\* sorted({image.provider for image in candidates})
providers_used(cands) == sorted({cands[j].provider : j \in DOMAIN cands})

\* {name: score for name, score in module_scores.items() if name != "holistic"}
visible_scores(module_scores) ==
    [n \in DOMAIN module_scores \ {"holistic"} |-> module_scores[n]]

\* orchestrator._public_scores: the holistic entry alone
public_scores(module_scores) ==
    [n \in DOMAIN module_scores \cap {"holistic"} |-> module_scores[n]]

\* _serialize_candidates / results_payload: locator, visible module scores and
\* composite score of every candidate
serialize_candidates(cands) ==
    [j \in DOMAIN cands |->
        [image_url |-> cands[j].url, provider |-> cands[j].provider,
         scores |-> IF EvaluationOf(cands[j]) = None THEN <<>>
                    ELSE visible_scores(EvaluationOf(cands[j])[1].module_scores),
         composite_score |-> CompositeOf(cands[j])]]

WithEvaluation(cands, evaluation) ==
    [j \in DOMAIN cands |-> [cands[j] EXCEPT !.evaluation = evaluation]]

\* text2image._generate_candidates as its caller sees it: the images of every
\* registered provider, in request order; an unregistered id adds none
RECURSIVE gathered_candidates(_, _)
gathered_candidates(plan, i) ==
    IF i > Len(plan) THEN <<>>
    ELSE (IF IsRegistered(plan[i].provider)
          THEN [j \in DOMAIN plan[i].urls |->
                   Candidate(plan[i].urls[j], plan[i].provider, None)]
          ELSE <<>>)
         \o gathered_candidates(plan, i + 1)

\* run_text2image_pipeline up to `await _evaluate_candidates(...)`
text2image_start(p) ==
    LET candidates == gathered_candidates(p.plan, 1) IN
    IF candidates = <<>> THEN on_exception(p, NoCandidatesMessage)
    ELSE [p EXCEPT !.stage = "scoring", !.candidates = candidates,
                   !.to_score = UrlsOf(candidates),
                   !.modules = IF p.modules = <<>> THEN DEFAULT_MODULES ELSE @]

\* the success response of run_text2image_pipeline
text2image_response(p, review) ==
    LET selection == select_best(UrlsOf(p.candidates), p.candidates[1].evaluation)
        best_image == p.candidates[selection.image]
    IN  [p EXCEPT !.stage = "done", !.status = "success",
                  !.best_image_url = Some(best_image.url),
                  !.best_index = selection.image,
                  !.best_composite_score = CompositeOf(best_image),
                  !.listed = serialize_candidates(p.candidates),
                  !.providers_used = providers_used(p.candidates),
                  !.review = review]

\* run_text2image_pipeline after the aggregation is back: selection, then the
\* comparative review when there is more than one candidate
text2image_scored(p, aggregation) ==
    IF aggregation.phase = "raised" THEN on_exception(p, ScoringErrorMessage)
    ELSE LET scored == [p EXCEPT !.candidates =
                                    WithEvaluation(@, Some(aggregation.result))]
         IN  IF Len(p.candidates) > 1 THEN [scored EXCEPT !.stage = "review"]
             ELSE text2image_response(scored, FALSE)

\* mutant: the first candidate is taken without comparing scores
best_candidate_first(cands, i, best, best_score) == 1

\* image2image._select_best_image over GeneratedMarketingImage items
RECURSIVE best_candidate_loop(_, _, _, _)
best_candidate_loop(cands, i, best, best_score) ==
    IF i > Len(cands) THEN best
    ELSE LET score == IF CompositeOf(cands[i]) = None THEN 0
                      ELSE CompositeOf(cands[i])[1]
         IN  IF score > best_score
             THEN best_candidate_loop(cands, i + 1, i, score)
             ELSE best_candidate_loop(cands, i + 1, best, best_score)

\* run_image2image_pipeline after `await _generate_candidates(...)`
image2image_after_generate(p) ==
    IF p.candidates = <<>> THEN on_exception(p, NoCandidatesMessage)
    ELSE LET best == best_candidate_loop(p.candidates, 1, 0, -1)
         IN  [p EXCEPT !.stage = "done", !.status = "success",
                       !.best_image_url = Some(p.candidates[best].url),
                       !.best_index = best,
                       !.best_composite_score = CompositeOf(p.candidates[best]),
                       !.listed = serialize_candidates(p.candidates),
                       !.providers_used = providers_used(p.candidates)]

\* image2image._generate_candidates: `for provider_id in providers:` from
\* position i up to the next await (the scoring of a provider that delivered
\* images) or to the end of the run
RECURSIVE provider_loop(_, _)
provider_loop(p, i) ==
    IF i > Len(p.plan) THEN image2image_after_generate(p)
    ELSE IF ~IsRegistered(p.plan[i].provider)
    THEN on_exception([p EXCEPT !.pos = i], UnknownProviderMessage)
    ELSE IF p.plan[i].urls = <<>> THEN provider_loop(p, i + 1)
    ELSE [p EXCEPT !.stage = "scoring", !.pos = i, !.to_score = p.plan[i].urls]

\* image2image: score_candidates of the provider at p.pos is back; its images
\* are verified and appended with that evaluation, and the loop goes on
image2image_scored(p, aggregation) ==
    IF aggregation.phase = "raised" THEN on_exception(p, ScoringErrorMessage)
    ELSE LET group == p.plan[p.pos]
             items == [j \in DOMAIN group.urls |->
                          Candidate(group.urls[j], group.provider,
                                    Some(aggregation.result))]
         IN  provider_loop([p EXCEPT !.candidates = @ \o items], p.pos + 1)

\* GenerationService._normalize_images: a response without locator yields one
\* placeholder image
normalize_images(urls) == IF urls = <<>> THEN <<"">> ELSE urls

\* the success response of handle_generate
generate_response(p, evaluations, used) ==
    LET selection == select_best(UrlsOf(p.candidates), evaluations) IN
    IF selection.raised THEN on_exception(p, "No candidates provided for selection.")
    ELSE [p EXCEPT !.stage = "done", !.status = "success",
                   !.candidates = WithEvaluation(@, evaluations),
                   !.best_image_url = Some(p.candidates[selection.image].url),
                   !.best_index = selection.image,
                   !.modules_used = used,
                   !.scores =
                       IF selection.evaluation = None THEN <<>>
                       ELSE public_scores(selection.evaluation[1].module_scores),
                   !.best_composite_score =
                       IF selection.evaluation = None THEN None
                       ELSE Some(selection.evaluation[1].composite_score)]

\* ServiceOrchestrator.handle_generate up to its first await after generation
handle_generate_start(p, call_failed) ==
    IF ~IsRegistered(p.plan[1].provider) THEN on_exception(p, UnknownProviderMessage)
    ELSE IF call_failed THEN on_exception(p, ProviderErrorMessage)
    ELSE LET urls == normalize_images(p.plan[1].urls)
             q == [p EXCEPT !.candidates =
                      [j \in DOMAIN urls |-> Candidate(urls[j], p.plan[1].provider, None)]]
         IN  IF p.modules # <<>>
             THEN [q EXCEPT !.stage = "scoring", !.to_score = urls]
             ELSE generate_response(q, None, <<>>)

handle_generate_scored(p, aggregation) ==
    IF aggregation.phase = "raised" THEN on_exception(p, ScoringErrorMessage)
    ELSE generate_response(p, Some(aggregation.result), aggregation.modules_used)

\* the aggregator is called when the run has reached its scoring stage
CallAggregator(p) ==
    IF p.stage = "scoring"
    THEN /\ agg_in' = [images |-> p.to_score, modules |-> p.modules]
         /\ agg_out' = ScoreStart([images |-> p.to_score, modules |-> p.modules])
    ELSE UNCHANGED aggVars

InitRun ==
    /\ kind = "run"
    /\ providers = <<>>
    /\ num = 1
    /\ tasks = <<>>
    /\ sem = <<>>
    /\ cur = 0
    /\ gen = "init"
    /\ images = <<>>
    /\ run = "run"
    /\ sel_in = NoSelInput
    /\ sel_out = NoSelection
    /\ agg_in = NoAggInput
    /\ agg_out = NoAggOutput
    /\ pipe \in RunRequests

AggregatorBack == agg_out.phase \in {"returned", "raised"}

\* the replies of the two scoring services explored inside a pipeline run: the
\* evaluator fails or replies with a final_score alone; MNet fails or answers 0.5
RunDoubaoOutcomes ==
    {o \in DoubaoOutcomes :
        \/ o.kind = "error"
        \/ o.kind = "reply" /\ DOMAIN o.payload = {"final_score"}
              /\ o.payload["final_score"] \in {4, 12}}

RunMNetOutcomes == {None, Some(5)}

\* inside a run: `await self._score_single(...)` returns for the image at
\* agg_out.pos
RunScoreSingle ==
    /\ kind = "run" /\ agg_out.phase = "scoring"
    /\ \E outcome \in RunDoubaoOutcomes, mnet \in RunMNetOutcomes :
          agg_out' = ScoreTurn(agg_in, agg_out, outcome, mnet)
    /\ UNCHANGED <<genVars, selVars, agg_in, pipe>>

\* run_text2image_pipeline(payload) is called
RunText2Image ==
    /\ pipe.entry = "text2image" /\ pipe.stage = "start"
    /\ pipe' = text2image_start(pipe)
    /\ CallAggregator(pipe')
    /\ UNCHANGED <<genVars, selVars>>

\* text2image: `await _evaluate_candidates(...)` returns
Text2ImageScored ==
    /\ pipe.entry = "text2image" /\ pipe.stage = "scoring" /\ AggregatorBack
    /\ pipe' = text2image_scored(pipe, agg_out)
    /\ UNCHANGED <<genVars, selVars, aggVars>>

\* text2image: `await reviewer.review_candidates(...)` returns a review or None
Text2ImageReviewed ==
    /\ pipe.entry = "text2image" /\ pipe.stage = "review"
    /\ \E reply \in CompareReplies :
          pipe' = text2image_response(pipe,
                      review_candidates(UrlsOf(pipe.candidates),
                                        pipe.candidates[1].evaluation,
                                        reply).review # None)
    /\ UNCHANGED <<genVars, selVars, aggVars>>

\* run_image2image_pipeline(payload) is called
RunImage2Image ==
    /\ pipe.entry = "image2image" /\ pipe.stage = "start"
    /\ pipe' = provider_loop([pipe EXCEPT !.modules =
                                 IF @ = <<>> THEN DEFAULT_MODULES ELSE @], 1)
    /\ CallAggregator(pipe')
    /\ UNCHANGED <<genVars, selVars>>

\* image2image: `await aggregator.score_candidates(...)` returns
Image2ImageScored ==
    /\ pipe.entry = "image2image" /\ pipe.stage = "scoring" /\ AggregatorBack
    /\ pipe' = image2image_scored(pipe, agg_out)
    /\ CallAggregator(pipe')
    /\ UNCHANGED <<genVars, selVars>>

\* ServiceOrchestrator.handle_generate(payload) is called; the provider call
\* returns or raises
HandleGenerate ==
    /\ pipe.entry = "aesthetic" /\ pipe.stage = "start"
    /\ \E call_failed \in BOOLEAN : pipe' = handle_generate_start(pipe, call_failed)
    /\ CallAggregator(pipe')
    /\ UNCHANGED <<genVars, selVars>>

\* handle_generate: `await self._scoring_aggregator.score_candidates(...)` returns
HandleGenerateScored ==
    /\ pipe.entry = "aesthetic" /\ pipe.stage = "scoring" /\ AggregatorBack
    /\ pipe' = handle_generate_scored(pipe, agg_out)
    /\ UNCHANGED <<genVars, selVars, aggVars>>

NextRun ==
    \/ RunText2Image
    \/ Text2ImageScored
    \/ Text2ImageReviewed
    \/ RunImage2Image
    \/ Image2ImageScored
    \/ HandleGenerate
    \/ HandleGenerateScored
    \/ RunScoreSingle

SpecRun == InitRun /\ [][NextRun]_vars

(* ====================== claims about the generator ==================== *)
AllRegistered == \A i \in DOMAIN providers : IsRegistered(providers[i])

\* every provider call made so far returned at least one locator
NoCallFailed == FailedCalls(tasks, 1) = 0

\* the images of the generator's output that attempt t produced
Contribution(t) == Cardinality({j \in DOMAIN images : images[j].task = t})

\* position i of the provider list is served by one batch call
BatchPosition(i) ==
    kind = "i2i" /\ providers[i] = "doubao_seedream" /\ num > 1

\* the logical attempts the generator makes for position i
AttemptsOf(i) ==
    IF BatchPosition(i) THEN {(i - 1) * num + 1} ELSE SlotsOf(i)

AllAttempts == UNION {AttemptsOf(i) : i \in DOMAIN providers}

\* what a successful attempt adds to the output
Yield(t) ==
    IF BatchPosition(PIdx(t)) THEN Min(tasks[t].urls, num) ELSE 1

Calling(p) == {t \in TaskIds : ProviderOf(t) = p /\ tasks[t].pc = "calling"}
Holding(p) == {t \in TaskIds : ProviderOf(t) = p /\ Inside(tasks[t])}

\* attempt t ended because every allowed try failed with a retryable error
Exhausted(t) ==
    /\ tasks[t].pc = "failed"
    /\ tasks[t].calls = NumDelays
    /\ is_retryable_generation_error(tasks[t].err)

C2_OneCallPerProvider ==
    \A p \in Range(providers) : Cardinality(Calling(p)) <= 1

C2_Witness ==
    /\ Len(providers) = 2 /\ providers[1] = providers[2] /\ num = 2
    /\ \E t, u \in TaskIds :
          /\ PIdx(t) # PIdx(u)
          /\ tasks[t].pc = "calling" /\ tasks[u].pc = "waiting"

(* C3 (as stated): between the first provider call of a logical attempt and  *)
(* its final outcome, no other logical attempt for the same provider makes a *)
(* provider call.                                                            *)
C3_Original ==
    \A t, u \in TaskIds :
        (/\ t # u /\ ProviderOf(t) = ProviderOf(u)
         /\ tasks[t].calls >= 1 /\ Live(tasks[t]))
            => tasks[u].pc # "calling"

(* C3 (amended): the gate is held for one try at a time: an attempt holds    *)
(* the permit while it is inside a try (pre-call sleep and provider call),   *)
(* and holds nothing during the backoff between two tries, so that the       *)
(* permit is then free for the other attempts of the provider.               *)
C3_HeldPerTry ==
    \A p \in Range(providers) :
        /\ Holding(p) # {} => sem[p] = 0
        /\ (/\ \E t \in TaskIds : ProviderOf(t) = p /\ tasks[t].pc = "backoff"
            /\ Holding(p) = {}) => sem[p] = 1

C3_Witness ==
    \E t, u \in TaskIds :
        /\ t # u /\ ProviderOf(t) = ProviderOf(u)
        /\ tasks[t].pc = "backoff" /\ tasks[u].pc = "calling"

(* C4: the permit is never leaked: the permits of a gate and the attempts    *)
(* inside it always add up to 1, so whenever an attempt ends by success,     *)
(* failure, exhaustion or cancellation its permit is back, and once every    *)
(* attempt has ended every gate holds 1.                                     *)
C4_NoPermitLeak ==
    /\ \A p \in Range(providers) : sem[p] + Cardinality(Holding(p)) = 1
    /\ (\A t \in TaskIds : ~Live(tasks[t])) => \A p \in Range(providers) : sem[p] = 1

\* one attempt ended by success, one by exhaustion, and the last one alive was
\* cancelled inside the gate, in its pre-call sleep (a try begun, its call not)
C4_Witness ==
    /\ gen = "cancelled"
    /\ \E t, u, v \in TaskIds :
          /\ ProviderOf(t) = ProviderOf(u) /\ ProviderOf(u) = ProviderOf(v)
          /\ tasks[t].pc = "ok" /\ Exhausted(u)
          /\ tasks[v].pc = "cancelled" /\ tasks[v].calls + 1 = tasks[v].attempt
          /\ \A x \in TaskIds \ {v} : tasks[x].pc \in {"ok", "failed"}
    /\ \A p \in Range(providers) : sem[p] = 1

(* C5: an attempt whose provider call fails with a retryable error fewer     *)
(* times than the attempt limit and then succeeds still yields its candidate *)
(* in the generator's output; and no attempt is given up while its last      *)
(* failure is retryable and tries remain.                                    *)
C5_RetryRecovers ==
    /\ \A t \in TaskIds :
          tasks[t].pc = "failed" /\ tasks[t].calls >= 1
              => \/ ~is_retryable_generation_error(tasks[t].err)
                 \/ tasks[t].calls = NumDelays
    /\ gen = "returned" =>
          \A t \in TaskIds :
              (tasks[t].pc = "ok" /\ tasks[t].calls > 1)
                  => /\ Contribution(t) >= 1
                     /\ ~tasks[t].batch => Contribution(t) = 1

C5_Witness ==
    /\ gen = "returned"
    /\ \E t \in TaskIds :
          /\ tasks[t].pc = "ok" /\ tasks[t].calls = NumDelays
          /\ Contribution(t) = 1

(* C6: an attempt that fails with a retryable error on every allowed try     *)
(* contributes no candidate, and it stops nothing: the generator still       *)
(* returns, every other attempt has run to its own outcome, and each         *)
(* contributes exactly what its own outcome gives.                           *)
C6_FailureIsolated ==
    /\ (gen = "raised" =>
           kind = "i2i" /\ cur \in DOMAIN providers /\ ~IsRegistered(providers[cur]))
    /\ (gen = "returned" /\ \E t \in TaskIds : Exhausted(t)) =>
          /\ \A t \in TaskIds : Exhausted(t) => Contribution(t) = 0
          /\ \A u \in AllAttempts :
                /\ Ended(tasks[u])
                /\ Contribution(u) = IF tasks[u].pc = "ok" THEN Yield(u) ELSE 0

C6_Witness ==
    /\ gen = "returned"
    /\ \E t, u, v \in TaskIds :
          /\ Exhausted(t)
          /\ u # t /\ PIdx(u) = PIdx(t) /\ tasks[u].pc = "ok" /\ Contribution(u) = 1
          /\ ProviderOf(v) # ProviderOf(t) /\ tasks[v].pc = "ok" /\ Contribution(v) = 1

\* every attempt the generator made has failed, and it made at least one
AllAttemptsFailed ==
    /\ \A t \in TaskIds : tasks[t].pc \in {"failed", "absent"}
    /\ \E t \in TaskIds : tasks[t].pc = "failed"

(* C7 (as stated): if every attempt of every requested provider fails, the   *)
(* generator raises (NoCandidatesError) to its caller.                       *)
C7_Original ==
    (gen \in {"returned", "raised"} /\ AllAttemptsFailed) => gen = "raised"

(* C7 (amended): if every attempt of every requested provider fails, the     *)
(* generator raises nothing of its own: it returns the empty list (the only  *)
(* exception it lets through is get_provider's, for an unregistered id in    *)
(* image2image); the pipeline run that called it then ends 'failed' and      *)
(* never goes on to scoring.                                                 *)
C7_EmptyThenFailed ==
    AllAttemptsFailed =>
        /\ gen = "returned" => images = <<>>
        /\ gen = "raised" =>
              kind = "i2i" /\ cur \in DOMAIN providers /\ ~IsRegistered(providers[cur])
        /\ run \in {"generate", "failed", "cancelled"}
        /\ (gen \in {"returned", "raised"} /\ run # "generate") => run = "failed"

C7_Witness ==
    /\ AllAttemptsFailed /\ AllRegistered
    /\ Len(providers) = 2 /\ providers[1] # providers[2]
    /\ gen = "returned" /\ images = <<>> /\ run = "failed"

RankingKey(i) ==
    LET url == sel_in.candidates[i]
        evals == sel_in.evaluations
    IN  IF evals = <<>> \/ url \notin DOMAIN evals[1] THEN 0
        ELSE IF "holistic" \in DOMAIN evals[1][url].module_scores
        THEN evals[1][url].module_scores["holistic"]
        ELSE evals[1][url].composite_score

\* _select_best_image ranks by the composite score alone
CompositeKey(i) ==
    LET url == sel_in.candidates[i]
        evals == sel_in.evaluations
    IN  IF evals = <<>> \/ url \notin DOMAIN evals[1] THEN 0
        ELSE evals[1][url].composite_score

RankedInput ==
    /\ sel_in.candidates # <<>>
    /\ sel_in.evaluations # <<>>
    /\ DOMAIN sel_in.evaluations[1] # {}

(* C9: given a non-empty candidate list and a non-empty evaluations map,    *)
(* select_best returns a candidate whose ranking key is greater than or     *)
(* equal to the ranking key of every candidate of the list.                 *)
C9_SelectsMaximum ==
    (sel_out.done = "select_best" /\ RankedInput) =>
        /\ ~sel_out.raised
        /\ sel_out.image \in DOMAIN sel_in.candidates
        /\ \A i \in DOMAIN sel_in.candidates :
              RankingKey(sel_out.image) >= RankingKey(i)

C9_Witness ==
    /\ sel_out.done = "select_best" /\ RankedInput
    /\ Len(sel_in.candidates) = 3
    /\ sel_out.image = 2
    /\ RankingKey(2) = 9 /\ RankingKey(1) = 4 /\ RankingKey(3) = 0
    /\ sel_in.candidates[2] \in DOMAIN sel_in.evaluations[1]
    /\ sel_in.candidates[1] \in DOMAIN sel_in.evaluations[1]
    /\ DOMAIN sel_in.evaluations[1][sel_in.candidates[2]].module_scores = {}
    /\ sel_in.evaluations[1][sel_in.candidates[1]].composite_score = 9

(* C10: when several candidates share the maximal ranking key, the one that *)
(* appears earliest in the input list is returned: the result is the first  *)
(* position holding the maximal key (select_best ranks by the ranking key,  *)
(* _select_best_image by the composite score).                              *)
C10_FirstMaximumWins ==
    /\ (sel_out.done = "select_best" /\ RankedInput) =>
          \A i \in DOMAIN sel_in.candidates :
              (\A j \in DOMAIN sel_in.candidates : RankingKey(i) >= RankingKey(j))
                  => sel_out.image <= i
    /\ (sel_out.done = "select_best_image" /\ sel_in.candidates # <<>>) =>
          /\ sel_out.image \in DOMAIN sel_in.candidates
          /\ \A i \in DOMAIN sel_in.candidates :
                (\A j \in DOMAIN sel_in.candidates : CompositeKey(i) >= CompositeKey(j))
                    => sel_out.image <= i

C10_Witness ==
    /\ sel_out.done = "select_best" /\ RankedInput
    /\ Len(sel_in.candidates) = 3
    /\ sel_in.candidates[2] # sel_in.candidates[3]
    /\ RankingKey(1) = 4 /\ RankingKey(2) = 9 /\ RankingKey(3) = 9
    /\ sel_out.image = 2

(* C11: select_best called with an empty candidate list raises (ValueError,  *)
(* "No candidates provided for selection.") and returns no SelectionResult,  *)
(* whatever the evaluations are; it raises for no other input.               *)
C11_EmptyInputRaises ==
    sel_out.done = "select_best" =>
        /\ sel_in.candidates = <<>> <=> sel_out.raised
        /\ sel_out.raised => sel_out.image = 0 /\ sel_out.evaluation = <<>>

C11_Witness ==
    /\ sel_out.done = "select_best" /\ sel_in.candidates = <<>>
    /\ sel_in.evaluations # <<>> /\ DOMAIN sel_in.evaluations[1] # {}
    /\ sel_out.raised

(* C12: select_best called with a non-empty candidate list and an absent     *)
(* (None) or empty evaluations map returns the first candidate in input      *)
(* order with no evaluation attached.                                        *)
C12_FallbackIsFirst ==
    (/\ sel_out.done = "select_best" /\ sel_in.candidates # <<>>
     /\ (sel_in.evaluations = <<>> \/ sel_in.evaluations = << <<>> >>))
        => /\ ~sel_out.raised
           /\ sel_out.image = 1
           /\ sel_out.evaluation = <<>>

C12_Witness ==
    /\ sel_out.done = "select_best" /\ Len(sel_in.candidates) = 3
    /\ sel_in.candidates[1] # sel_in.candidates[3]
    /\ sel_in.evaluations = << <<>> >>
    /\ sel_out.image = 1 /\ sel_out.evaluation = <<>>

(* ====================== claims about the aggregator =================== *)
\* score_candidates has stored at least one evaluation
Scored == agg_out.phase \in {"scoring", "returned"} /\ agg_out.last # <<>>

\* the registered modules among the requested ones; all of them when the
\* request names none
RequestedModules ==
    LET known == Range(agg_in.modules) \cap Range(RegisteredModules)
    IN  IF known = {} THEN Range(RegisteredModules) ELSE known

\* the module names that have a score in some stored evaluation
ScoredNames ==
    UNION {DOMAIN agg_out.result[u].module_scores : u \in DOMAIN agg_out.result}

(* C13: for every candidate of an AggregationResult the composite score      *)
(* equals the candidate's holistic module score when it has one and is       *)
(* exactly 0 otherwise, whatever the other modules scored.                   *)
C13_CompositeIsHolistic ==
    Scored =>
        \A u \in DOMAIN agg_out.result :
            LET e == agg_out.result[u] IN
            /\ "holistic" \in DOMAIN e.module_scores
                   => e.composite_score = e.module_scores["holistic"]
            /\ "holistic" \notin DOMAIN e.module_scores => e.composite_score = 0

C13_Witness ==
    /\ agg_out.phase = "returned"
    /\ \E u, v \in DOMAIN agg_out.result :
          /\ agg_out.result[u].composite_score = 400
          /\ {"holistic", "noise_eval"} \subseteq DOMAIN agg_out.result[u].module_scores
          /\ agg_out.result[u].module_scores["holistic"] = 400
          /\ agg_out.result[u].module_scores["noise_eval"] > 400
          /\ agg_out.result[v].composite_score = 1000

(* C14: every composite score of every evaluation the aggregator produces    *)
(* lies in [0, 1] (0..1000 thousandths), whatever raw values the vision      *)
(* evaluator and the MNet service reply with.                                *)
C14_CompositeInUnitRange ==
    Scored =>
        \A u \in DOMAIN agg_out.result :
            /\ agg_out.result[u].composite_score >= 0
            /\ agg_out.result[u].composite_score <= 1000

C14_Witness ==
    /\ agg_out.phase = "returned" /\ agg_out.last # <<>>
    /\ agg_out.last[1].doubao.kind = "reply"
    /\ "final_score" \in DOMAIN agg_out.last[1].doubao.payload
    /\ agg_out.last[1].doubao.payload["final_score"] = 12
    /\ agg_out.result[agg_out.last[1].url].composite_score = 1000
    /\ \E u \in DOMAIN agg_out.result : agg_out.result[u].composite_score = 0

(* C15: if the external vision-evaluation call fails for a candidate (it     *)
(* raises, or gives up and answers with no result), score_candidates does    *)
(* not fail: the candidate gets no score from the                            *)
(* evaluator, and every requested module (every registered one among those   *)
(* asked for; all of them when none is) is run for it and its own score      *)
(* recorded.                                                                 *)
C15_EvaluatorFailureAbsorbed ==
    /\ agg_out.phase # "raised"
    /\ (Scored /\ agg_out.last[1].doubao.kind \in {"error", "none"}) =>
          LET l == agg_out.last[1] IN
          /\ l.external = <<>>
          /\ l.ran = RequestedModules
          /\ DOMAIN l.module_scores = RequestedModules
          /\ \A n \in RequestedModules :
                l.module_scores[n] = service_score(n, l.url, l.mnet)
          /\ agg_out.result[l.url].module_scores = l.module_scores

C15_Witness ==
    /\ agg_out.phase = "returned" /\ agg_out.last # <<>>
    /\ agg_out.last[1].doubao.kind = "error"
    /\ agg_in.modules = <<"noise_eval", "bogus", "holistic">>
    /\ DOMAIN agg_out.result[agg_out.last[1].url].module_scores
           = {"noise_eval", "holistic"}
    /\ agg_out.result[agg_out.last[1].url].module_scores["holistic"] = 550

(* C16: a module score supplied by the external vision evaluator for a       *)
(* candidate is never replaced by a local or fallback module's score: when   *)
(* the module was asked for, the score recorded under its name is the        *)
(* evaluator's value and the local service of that name is not run.          *)
C16_ExternalScoreKept ==
    (Scored /\ agg_out.last[1].external # <<>>) =>
        LET l == agg_out.last[1] IN
        \A n \in DOMAIN l.external[1] :
            /\ n \notin l.ran
            /\ n \in RequestedModules <=> n \in DOMAIN l.module_scores
            /\ n \in DOMAIN l.module_scores =>
                  /\ l.module_scores[n] = l.external[1][n]
                  /\ agg_out.result[l.url].module_scores[n] = l.external[1][n]

C16_Witness ==
    /\ Scored /\ agg_out.last[1].external # <<>>
    /\ DOMAIN agg_out.last[1].external[1] = {"clarity_eval"}
    /\ agg_out.last[1].ran = {"holistic"}
    /\ "clarity_eval" \in DOMAIN agg_out.last[1].module_scores
    /\ agg_out.last[1].module_scores["clarity_eval"] = 1000
    /\ service_score("clarity_eval", agg_out.last[1].url, <<>>) # 1000

(* C17: for any AggregationResult, modules_used is the sorted union of the   *)
(* module names present in the per-candidate evaluations: it lists each such *)
(* name once, in ascending order, and no name that no candidate has a score  *)
(* for.                                                                      *)
C17_ModulesUsedIsSortedUnion ==
    agg_out.phase = "returned" =>
        /\ Range(agg_out.modules_used) = ScoredNames
        /\ Len(agg_out.modules_used) = Cardinality(ScoredNames)
        /\ \A i, j \in DOMAIN agg_out.modules_used :
              i < j => NameRank(agg_out.modules_used[i])
                          < NameRank(agg_out.modules_used[j])

C17_Witness ==
    /\ agg_out.phase = "returned"
    /\ agg_in.modules = <<"noise_eval", "bogus", "holistic">>
    /\ Cardinality(DOMAIN agg_out.result) = 2
    /\ agg_out.modules_used = <<"holistic", "noise_eval">>

(* ----------------------- claims about pipeline runs -------------------- *)
PipelineEntries == {"text2image", "image2image"}

\* C18 (as stated): no entry point lets an exception reach its caller; whatever
\* a stage raises, the run ends with status 'failed' and the stringified cause
\* as its message.  handle_generate has no handler, so an unregistered
\* provider id or a failing provider call leaves it as an exception.
C18_Original ==
    pipe.raised # None => pipe.status = "failed" /\ pipe.message = pipe.raised[1]

\* C19 (as stated): a run that has at least one generated candidate ends with
\* status 'success'.  In image2image an unregistered provider id after a
\* provider that delivered raises out of the provider loop and fails the run.
C19_Original ==
    (pipe.entry \in PipelineEntries /\ pipe.stage = "done" /\ pipe.candidates # <<>>)
        => pipe.status = "success"

\* C20: in a successful result of text2image or image2image the winning locator
\* is the locator of a listed candidate, the best composite score is that
\* candidate's composite, and no listed candidate has a higher composite.
C20_WinnerIsListedMaximum ==
    (pipe.entry \in PipelineEntries /\ pipe.status = "success") =>
        /\ pipe.best_image_url # None
        /\ \E j \in DOMAIN pipe.listed :
              /\ pipe.listed[j].image_url = pipe.best_image_url[1]
              /\ pipe.listed[j].composite_score = pipe.best_composite_score
        /\ \A j \in DOMAIN pipe.listed :
              \/ pipe.listed[j].composite_score = None
              \/ /\ pipe.best_composite_score # None
                 /\ pipe.listed[j].composite_score[1] <= pipe.best_composite_score[1]

\* a successful image2image run whose winner is not the first listed candidate
C20_Witness ==
    /\ pipe.entry = "image2image" /\ pipe.status = "success"
    /\ Len(pipe.listed) >= 2
    /\ pipe.best_composite_score # None
    /\ pipe.listed[1].composite_score # None
    /\ pipe.listed[1].composite_score[1] < pipe.best_composite_score[1]

\* C21 (as stated): no score breakdown of a result has an entry for the holistic
\* module.  The candidate lists of text2image and image2image have none, but
\* handle_generate reports _public_scores, which keeps the holistic entry alone.
C21_Original ==
    /\ \A j \in DOMAIN pipe.listed : "holistic" \notin DOMAIN pipe.listed[j].scores
    /\ "holistic" \notin DOMAIN pipe.scores

\* the requested providers that delivered at least one candidate
Contributors == {pipe.plan[i].provider : i \in {k \in DOMAIN pipe.plan :
                                                   pipe.plan[k].urls # <<>>}}

\* C22: the providers list of a successful result holds exactly the providers
\* with at least one surviving candidate, each of them once; a provider that
\* delivered nothing is not in it.
C22_ProvidersUsedAreContributors ==
    (pipe.entry \in PipelineEntries /\ pipe.status = "success") =>
        /\ Range(pipe.providers_used) = Contributors
        /\ Len(pipe.providers_used) = Cardinality(Contributors)

\* a successful run in which one provider delivered two candidates and another
\* requested provider delivered none
C22_Witness ==
    /\ pipe.entry \in PipelineEntries /\ pipe.status = "success"
    /\ \E i, k \in DOMAIN pipe.plan :
          /\ Len(pipe.plan[i].urls) = 2
          /\ pipe.plan[k].urls = <<>>
          /\ pipe.plan[k].provider # pipe.plan[i].provider
    /\ Len(pipe.providers_used) = 1

(* --------------------- claims about the batch call --------------------- *)
\* how many images of attempt t stand before position j of the candidate list
Before(t, j) == Cardinality({i \in 1..(j - 1) : images[i].task = t})

EvaluatorFailedForAll ==
    /\ pipe.entry \in {"text2image", "aesthetic"} /\ pipe.status = "success"
    /\ agg_out.phase = "returned" /\ agg_out.log # <<>>
    /\ \A i \in DOMAIN agg_out.log : agg_out.log[i].doubao = "error"

EveryCandidateFullyScored ==
    \A j \in DOMAIN pipe.candidates :
        /\ EvaluationOf(pipe.candidates[j]) # None
        /\ DOMAIN EvaluationOf(pipe.candidates[j])[1].module_scores
              = Range(agg_out.services)

CompositeAt(j) == EvaluationOf(pipe.candidates[j])[1].composite_score

\* C25 (as stated): when the vision evaluation fails for every candidate, each
\* candidate has the scores of the fallback modules, every composite is 0.0
\* and the first candidate is selected.  The holistic fallback asks MNet, so
\* a composite is 0.0 only when that call fails too.
C25_Original ==
    EvaluatorFailedForAll =>
        /\ EveryCandidateFullyScored
        /\ \A j \in DOMAIN pipe.candidates : CompositeAt(j) = 0
        /\ pipe.best_index = 1

\* C25 (amended): when the vision evaluation fails for every candidate, each
\* candidate has a score of every selected module; its composite is the
\* holistic service's score, which is 0.0 for every candidate when the MNet
\* call fails for each of them or holistic is not selected; the first
\* candidate with the greatest composite is selected, which is the first in
\* input order when the composites are equal.
C25_FallbackScoresAndFirstMaximum ==
    EvaluatorFailedForAll =>
        /\ EveryCandidateFullyScored
        /\ \A j \in DOMAIN pipe.candidates :
              CompositeAt(j) =
                  IF "holistic" \in Range(agg_out.services)
                  THEN EvaluationOf(pipe.candidates[j])[1].module_scores["holistic"]
                  ELSE 0
        /\ (\/ "holistic" \notin Range(agg_out.services)
            \/ \A i \in DOMAIN agg_out.log : agg_out.log[i].mnet_failed)
              => \A j \in DOMAIN pipe.candidates : CompositeAt(j) = 0
        /\ pipe.best_index \in DOMAIN pipe.candidates
        /\ \A j \in DOMAIN pipe.candidates :
              /\ CompositeAt(j) <= CompositeAt(pipe.best_index)
              /\ j < pipe.best_index => CompositeAt(j) < CompositeAt(pipe.best_index)

\* two providers with one candidate each, the evaluator and MNet failed for
\* both: every module scored, composites 0.0, the first candidate selected
C25_Witness ==
    /\ EvaluatorFailedForAll
    /\ pipe.entry = "text2image" /\ Len(pipe.candidates) = 2
    /\ pipe.candidates[1].provider # pipe.candidates[2].provider
    /\ pipe.candidates[1].url # pipe.candidates[2].url
    /\ {"holistic", "color_score"} \subseteq Range(agg_out.services)
    /\ \A i \in DOMAIN agg_out.log : agg_out.log[i].mnet_failed
    /\ \A j \in DOMAIN pipe.candidates : CompositeAt(j) = 0
    /\ pipe.best_index = 1

(* ------------------- claims about the requested modules ----------------- *)
\* the registered names among the requested module names
RequestedRegistered == Range(agg_in.modules) \cap Range(RegisteredModules)

\* C26: when a registered module name is requested and a candidate is scored,
\* modules_used is exactly the set of requested registered modules and the
\* evaluation of every candidate has a score for each of them.
C26_ModulesUsedAreRequested ==
    (kind = "score" /\ agg_out.phase = "returned" /\ agg_in.images # <<>>
                    /\ RequestedRegistered # {}) =>
        /\ Range(agg_out.modules_used) = RequestedRegistered
        /\ Len(agg_out.modules_used) = Cardinality(RequestedRegistered)
        /\ \A i \in DOMAIN agg_in.images :
              /\ agg_in.images[i] \in DOMAIN agg_out.result
              /\ DOMAIN agg_out.result[agg_in.images[i]].module_scores
                    = RequestedRegistered

\* two candidates scored for a request that names two registered modules and
\* an unknown one, the evaluator having supplied a score
C26_Witness ==
    /\ kind = "score" /\ agg_out.phase = "returned"
    /\ agg_in.images = <<"u1", "u2">>
    /\ agg_in.modules = <<"noise_eval", "bogus", "holistic">>
    /\ agg_out.last # <<>>
    /\ agg_out.last[1].external # <<>>
    /\ DOMAIN agg_out.result["u1"].module_scores = {"noise_eval", "holistic"}

(* ----------------------- claims about the reviewer --------------------- *)
\* C27 (as stated): review_candidates with exactly one candidate returns no
\* review and does not call the comparison client; a review exists only with
\* two candidates or more.  With one candidate that has an evaluation the
\* code asks compare_images for a critique of that image and returns it.
C27_Original ==
    (kind = "review" /\ pipe.stage = "done") =>
        /\ Len(pipe.candidates) = 1 => pipe.review = None /\ pipe.calls = <<>>
        /\ pipe.review # None => Len(pipe.candidates) >= 2

(* ---------------------- claims about the retry loop -------------------- *)
\* C28: one logical generation attempt makes at most 3 provider calls, the
\* first try and up to 2 retries, whatever the failures are.
C28_AtMostThreeCalls ==
    \A t \in DOMAIN tasks :
        /\ tasks[t].calls <= 3
        /\ tasks[t].calls <= tasks[t].attempt

\* an attempt whose three calls all timed out has failed
C28_Witness ==
    \E t \in DOMAIN tasks :
        /\ tasks[t].pc = "failed"
        /\ tasks[t].calls = 3
        /\ is_retryable_generation_error(tasks[t].err)

(* --------------------------- termination ------------------------------- *)
\* the number of candidates of the runs whose termination is explored
MaxLiveUrls == 2

\* the modules these runs ask for
LiveModules == <<"holistic", "color_score">>

\* DoubaoAestheticClient._post_with_retry inside the evaluation of the image
\* at agg_out.pos: a POST failed with a retryable error before the last
\* attempt, so the loop sleeps and posts again
PostRetry ==
    /\ kind = "run" /\ agg_out.phase = "scoring"
    /\ agg_out.post_attempt < max_attempts
    /\ agg_out' = [agg_out EXCEPT !.post_attempt = @ + 1]
    /\ UNCHANGED <<genVars, selVars, agg_in, pipe>>

\* the runs of the two pipelines: the generation stage with its attempts, and
\* the run from the outcome of generation on
InitLive ==
    \/ Init
    \/ /\ InitRun
       /\ pipe.entry \in PipelineEntries
       /\ pipe.modules = LiveModules
       /\ TotalUrls(pipe.plan, 1) <= MaxLiveUrls

\* every step but the cancellation of the run from outside
NextLive ==
    \/ StartT2I
    \/ StartI2I
    \/ \E t \in TaskIds : SpacingDone(t)
    \/ \E t \in TaskIds : CallReturns(t)
    \/ \E t \in TaskIds : CallFails(t)
    \/ \E t \in TaskIds : BackoffDone(t)
    \/ ReturnT2I
    \/ FinishProvider
    \/ ScoreProvider
    \/ AfterGenerate
    \/ RunText2Image
    \/ Text2ImageScored
    \/ Text2ImageReviewed
    \/ RunImage2Image
    \/ Image2ImageScored
    \/ RunScoreSingle
    \/ PostRetry

\* the event loop runs a coroutine that can run, every sleep ends, and every
\* provider call and scoring call returns or fails
SpecLive == InitLive /\ [][NextLive]_vars /\ WF_vars(NextLive)

\* generation has handed over to scoring or has failed the run; the run has
\* returned its result
Terminated ==
    \/ kind \in {"t2i", "i2i"} /\ run \in {"evaluate", "failed"}
    \/ kind = "run" /\ pipe.stage = "done" /\ pipe.status \in {"success", "failed"}

\* C29: every pipeline run terminates: when every provider call and every
\* scoring call returns or fails, generation ends and the run returns a
\* result with status 'success' or 'failed'; no sequence of failures keeps
\* it retrying or waiting at a gate.
C29_RunTerminates == <>Terminated

\* a run ended although an attempt used all its tries and another attempt of
\* the same provider had to wait for the gate meanwhile
C29_Witness ==
    /\ kind = "t2i" /\ run \in {"evaluate", "failed"}
    /\ \E t, u \in DOMAIN tasks :
          /\ t # u /\ ProviderOf(t) = ProviderOf(u)
          /\ tasks[t].calls = 3 /\ tasks[t].pc = "failed"
          /\ tasks[u].calls >= 1

(* ------------------- independence of the schedule ---------------------- *)
\* the attempts that returned an image
OkAttempts == {t \in DOMAIN tasks : tasks[t].pc = "ok"}

\* the attempt whose image stands at each position of the candidate list
ImageAttempts == [j \in DOMAIN images |-> images[j].task]

\* the locator attempt t returns when it succeeds, fixed for the run
UrlOfAttempt(t) == CASE t = 1 -> "u1" [] t = 2 -> "u2" [] t = 3 -> "u3" [] OTHER -> "u1"

\* the evaluations of a run in which the locators are scored as `score` says
FixedEvaluations(score) ==
    Some([u \in Urls |-> [module_scores |-> <<>>, composite_score |-> score[u]]])

\* the attempt whose image select_best returns for the candidate list
SelectedAttempt(score) ==
    ImageAttempts[select_best([j \in DOMAIN images |-> UrlOfAttempt(images[j].task)],
                              FixedEvaluations(score)).image]

\* C30: the winner of a text-to-image run does not depend on the schedule:
\* whatever the order in which the attempts complete, the candidate list
\* holds the images of the successful attempts in the order in which the
\* attempts were created, and for any fixed scores the selected candidate is
\* the earliest created successful attempt among those with the greatest
\* score; both are functions of the attempts' outcomes and the scores alone.
C30_WinnerIndependentOfSchedule ==
    (kind = "t2i" /\ gen = "returned") =>
        /\ {images[j].task : j \in DOMAIN images} = OkAttempts
        /\ \A j, k \in DOMAIN images : j < k => images[j].task < images[k].task
        /\ images # <<>> =>
              \A score \in [Urls -> CompositeValues] :
                  \A u \in OkAttempts :
                      /\ score[UrlOfAttempt(SelectedAttempt(score))]
                            >= score[UrlOfAttempt(u)]
                      /\ score[UrlOfAttempt(SelectedAttempt(score))]
                            = score[UrlOfAttempt(u)] => SelectedAttempt(score) <= u

\* three attempts returned an image, the last created first and the first
\* created last, and the list is returned in creation order
C30_Witness ==
    /\ kind = "t2i" /\ gen = "returned"
    /\ Len(images) = 3
    /\ tasks[images[1].task].order = 3
    /\ tasks[images[3].task].order = 1
    /\ ProviderOf(images[1].task) # ProviderOf(images[3].task)

(* -------------------- claims about the error classes ------------------- *)
\* the last failure of attempt t was classified non-retryable
LastErrorPermanent(t) ==
    tasks[t].err # "" /\ ~is_retryable_generation_error(tasks[t].err)

\* C31: a generation failure classified as non-retryable (missing
\* credentials, a malformed request, a permanent 4xx) ends the logical
\* attempt with the provider call that raised it: the attempt is failed at
\* once, it neither backs off nor calls the provider again.
C31_PermanentFailureEndsAttempt ==
    \A t \in DOMAIN tasks :
        LastErrorPermanent(t) => tasks[t].pc = "failed"

\* an attempt failed on its first call with a 400, and another one on its
\* second call with missing credentials after a timeout was retried
C31_Witness ==
    \E t, u \in DOMAIN tasks :
        /\ tasks[t].pc = "failed" /\ tasks[t].calls = 1 /\ tasks[t].err = "http 400"
        /\ tasks[u].pc = "failed" /\ tasks[u].calls = 2
        /\ tasks[u].err = "api key missing"

\* the failures of the transient classes: a timeout, a 5xx response, a 429
TransientMessages == {"request timeout", "http 503", "http 429"}

\* C32 (as stated): a generation failure of any transient class (rate
\* limiting, timeout, connection reset, a 5xx response, a 429 response) is
\* classified retryable and, while tries remain, is followed by another
\* provider call of the same logical attempt.  The classifier's signal list
\* holds no 5xx status, so a 503 ends the attempt at once.
C32_Original ==
    \A t \in DOMAIN tasks :
        tasks[t].err \in TransientMessages =>
            /\ is_retryable_generation_error(tasks[t].err)
            /\ tasks[t].pc = "failed" => tasks[t].attempt = NumDelays

(* ------------------ claims about the order of scoring ------------------ *)
\* the scoring of the candidate at position j has started; it is in progress
\* while score_candidates waits for its _score_single
ScoringStarted(j) == agg_out.phase \in {"scoring", "returned", "raised"} /\ j <= agg_out.pos
ScoringInProgress(j) == agg_out.phase = "scoring" /\ j = agg_out.pos

\* C33 (as stated): score_candidates scores the candidates concurrently:
\* while the scoring of one candidate is in progress, the scoring of every
\* other candidate has started too, so that two of them can be in progress
\* at the same time.  The code awaits _score_single inside the for loop, so
\* the next candidate starts only when the one before it is finished.
C33_Original ==
    \A j, k \in DOMAIN agg_in.images :
        ScoringInProgress(j) => ScoringStarted(k)

\* the locators of the candidates whose _score_single has returned
FinishedUrls ==
    {agg_in.images[j] : j \in {k \in DOMAIN agg_in.images : k < agg_out.pos}}

\* C34: a candidate's entry is put into the result map only after all of
\* its scoring tasks have completed: at every moment the map holds entries
\* only for candidates whose scoring is finished, and each entry has a score
\* for every selected module; a scoring run that is cancelled part-way
\* returns nothing, and a returned result has an entry for every candidate.
C34_NoPartialResult ==
    agg_out.phase # "idle" =>
        /\ DOMAIN agg_out.result = FinishedUrls
        /\ \A u \in DOMAIN agg_out.result :
              Range(agg_out.services) \subseteq DOMAIN agg_out.result[u].module_scores
        /\ agg_out.phase = "cancelled" => aggregation_result(agg_out) = None
        /\ aggregation_result(agg_out) # None =>
              DOMAIN aggregation_result(agg_out)[1].image_results
                  = Range(agg_in.images)

\* the run was cancelled while the second of two different candidates was
\* being scored: the map holds the finished first one only
C34_Witness ==
    /\ agg_out.phase = "cancelled" /\ agg_out.pos = 2
    /\ Len(agg_in.images) = 2 /\ agg_in.images[1] # agg_in.images[2]
    /\ DOMAIN agg_out.result = {agg_in.images[1]}
    /\ agg_out.last # <<>> /\ agg_out.last[1].ran # {}

(* ------------------- claims about the batch path ----------------------- *)
\* the attempts of provider i that were created
CreatedOf(i) == {t \in SlotsOf(i) : tasks[t].pc # "absent"}

\* the provider at position i generates batches on the server side
SupportsBatch(i) == get_provider(providers[i]).name = "doubao_seedream"

\* C35 (as stated): when more than one variation is requested from a
\* provider that supports server-side batch generation, the generator makes
\* one batch request for that provider; in every other case it makes one
\* request per requested variation.  text2image never takes the batch
\* path: it creates one single-image attempt per requested candidate for
\* every provider.
C35_Original ==
    gen = "returned" =>
        \A i \in DOMAIN providers :
            IF SupportsBatch(i) /\ num > 1
            THEN /\ CreatedOf(i) = {FirstSlot(i)}
                 /\ tasks[FirstSlot(i)].batch
            ELSE /\ CreatedOf(i) = SlotsOf(i)
                 /\ \A t \in SlotsOf(i) : ~tasks[t].batch

(* -------------------- claims about the module selection ---------------- *)
\* C36 (as stated): the aggregator runs all registered modules when the
\* modules argument is empty, and otherwise exactly the registered names
\* among those requested: an unregistered name raises no error, produces no
\* score and causes no other module to be run.
C36_Original ==
    (kind = "score" /\ agg_out.phase # "idle") =>
        /\ agg_out.phase # "raised"
        /\ Range(agg_out.services) =
              IF agg_in.modules = <<>> THEN Range(RegisteredModules)
              ELSE RequestedRegistered
        /\ ScoredNames \subseteq Range(agg_out.services)

\* C36 (amended): the aggregator runs all registered modules when the
\* modules argument is empty or names no registered module, and otherwise
\* exactly the registered names among those requested; an unregistered name
\* raises no error and produces no score.
C36_UnknownOnlyRunsAll ==
    (kind = "score" /\ agg_out.phase # "idle") =>
        /\ agg_out.phase # "raised"
        /\ Range(agg_out.services) =
              IF RequestedRegistered = {} THEN Range(RegisteredModules)
              ELSE RequestedRegistered
        /\ ScoredNames \subseteq Range(agg_out.services)

\* a request that names one unknown module only: every registered module
\* was run and scored for the candidate
C36_Witness ==
    /\ kind = "score" /\ agg_out.phase = "returned"
    /\ agg_in.modules = <<"bogus">> /\ agg_in.images = <<"u1">>
    /\ Range(agg_out.services) = Range(RegisteredModules)
    /\ DOMAIN agg_out.result["u1"].module_scores = Range(RegisteredModules)

(* ------------------ claims about the skipped scoring ------------------- *)
\* C37 (as stated): when the request names no scoring module, the run does
\* not call the aggregator: the selector returns the first candidate and
\* the result carries no composite score.  handle_generate does so; the
\* two pipelines replace an empty module list by DEFAULT_MODULES and score
\* with them.
C37_Original ==
    [][(kind = "run" /\ pipe.stage = "start" /\ pipe.modules = <<>>) =>
          /\ agg_out' = agg_out
          /\ pipe'.stage = "done"
          /\ pipe'.status = "success" =>
                /\ pipe'.best_index = 1
                /\ pipe'.best_composite_score = None]_vars

(* ------------------------ two concurrent runs -------------------------- *)
\* most logical attempts of each of the two runs
MaxTwoTasks == 2

\* mutant: the gates are kept at module level, so a second run takes the
\* gates of the first one as they are
second_provider_limits_shared(first) == first

\* provider_limits is a local of _generate_candidates: a second call builds
\* its own dict of fresh Semaphore(1) objects, whatever the first one holds
second_provider_limits(first) == provider_limits

\* a second text2image run of the same request, not yet started; its
\* attempts and gates are pipe.tasks and pipe.sem
SecondRun ==
    [entry |-> "second", tasks |-> [t \in TaskIds |-> NoTask], sem |-> <<>>,
     gen |-> "init"]

InitTwo ==
    /\ \E r \in Requests :
          /\ r.kind = "t2i" /\ Len(r.providers) * r.num <= MaxTwoTasks
          /\ \A i \in DOMAIN r.providers : IsRegistered(r.providers[i])
          /\ kind = r.kind
          /\ providers = r.providers
          /\ num = r.num
    /\ tasks = [t \in TaskIds |-> NoTask]
    /\ sem = provider_limits
    /\ cur = 0
    /\ gen = "init"
    /\ images = <<>>
    /\ run = "generate"
    /\ sel_in = NoSelInput
    /\ sel_out = NoSelection
    /\ agg_in = NoAggInput
    /\ agg_out = NoAggOutput
    /\ pipe = SecondRun

\* the second run: _generate_candidates builds its gates and its tasks
SecondStart ==
    /\ pipe.entry = "second" /\ pipe.gen = "init"
    /\ LET r == CreateTasksT2I(pipe.tasks, second_provider_limits(sem), 1)
       IN  pipe' = [pipe EXCEPT !.tasks = r.tasks, !.sem = r.sem,
                                !.gen = "running"]
    /\ UNCHANGED <<genVars, selVars, aggVars>>

\* the second run: the spacing sleep of attempt t ends
SecondSpacingDone(t) ==
    /\ pipe.entry = "second" /\ pipe.gen = "running"
    /\ pipe.tasks[t].pc = "spacing"
    /\ pipe' = [pipe EXCEPT !.tasks[t].pc = "calling", !.tasks[t].calls = @ + 1]
    /\ UNCHANGED <<genVars, selVars, aggVars>>

\* the second run: provider.generate() of attempt t returns one locator
SecondCallReturns(t) ==
    /\ pipe.entry = "second" /\ pipe.gen = "running"
    /\ pipe.tasks[t].pc = "calling"
    /\ \E w \in Wakeable(pipe.tasks, ProviderOf(t)) :
          LET r == OnTrySucceeded(pipe.tasks, pipe.sem, t, 1, w)
          IN  pipe' = [pipe EXCEPT !.tasks = r.tasks, !.sem = r.sem]
    /\ UNCHANGED <<genVars, selVars, aggVars>>

\* the second run: provider.generate() of attempt t raises
SecondCallFails(t) ==
    /\ pipe.entry = "second" /\ pipe.gen = "running"
    /\ pipe.tasks[t].pc = "calling"
    /\ FailedCalls(pipe.tasks, 1) < MaxFailures
    /\ \E m \in {"request timeout", "api key missing"},
          w \in Wakeable(pipe.tasks, ProviderOf(t)) :
          LET r == OnTryFailed(pipe.tasks, pipe.sem, t, m, w)
          IN  pipe' = [pipe EXCEPT !.tasks = r.tasks, !.sem = r.sem]
    /\ UNCHANGED <<genVars, selVars, aggVars>>

\* the second run: the backoff sleep of attempt t ends
SecondBackoffDone(t) ==
    /\ pipe.entry = "second" /\ pipe.gen = "running"
    /\ pipe.tasks[t].pc = "backoff"
    /\ LET r == Enter([pipe.tasks EXCEPT ![t].attempt = @ + 1], pipe.sem, t)
       IN  pipe' = [pipe EXCEPT !.tasks = r.tasks, !.sem = r.sem]
    /\ UNCHANGED <<genVars, selVars, aggVars>>

\* the second run: gather has every result
SecondReturn ==
    /\ pipe.entry = "second" /\ pipe.gen = "running"
    /\ \A t \in TaskIds : Ended(pipe.tasks[t])
    /\ pipe' = [pipe EXCEPT !.gen = "returned"]
    /\ UNCHANGED <<genVars, selVars, aggVars>>

NextTwo ==
    \/ StartT2I
    \/ \E t \in TaskIds : SpacingDone(t)
    \/ \E t \in TaskIds : CallReturns(t)
    \/ \E t \in TaskIds : CallFails(t)
    \/ \E t \in TaskIds : BackoffDone(t)
    \/ ReturnT2I
    \/ SecondStart
    \/ \E t \in TaskIds : SecondSpacingDone(t)
    \/ \E t \in TaskIds : SecondCallReturns(t)
    \/ \E t \in TaskIds : SecondCallFails(t)
    \/ \E t \in TaskIds : SecondBackoffDone(t)
    \/ SecondReturn

SpecTwo == InitTwo /\ [][NextTwo]_vars

\* C38: the gates belong to one pipeline run: an attempt waits at a gate
\* only while an attempt of its own run for the same provider is inside it,
\* never for a permit a concurrent run holds, so two concurrent runs can
\* each have a call to the same provider in flight.
C38_GatesArePerRun ==
    pipe.entry = "second" =>
        /\ \A t \in TaskIds :
              tasks[t].pc = "waiting" =>
                  \E u \in TaskIds :
                      ProviderOf(u) = ProviderOf(t) /\ Inside(tasks[u])
        /\ \A t \in TaskIds :
              pipe.tasks[t].pc = "waiting" =>
                  \E u \in TaskIds :
                      ProviderOf(u) = ProviderOf(t) /\ Inside(pipe.tasks[u])

\* both runs have a call to the same provider in flight, and each has a
\* second attempt for that provider waiting at its own gate
C38_Witness ==
    /\ pipe.entry = "second"
    /\ \E t, u \in TaskIds :
          /\ tasks[t].pc = "calling" /\ pipe.tasks[u].pc = "calling"
          /\ ProviderOf(t) = ProviderOf(u)
    /\ \E t, u \in TaskIds :
          tasks[t].pc = "waiting" /\ pipe.tasks[u].pc = "waiting"

(* ------------------ claims about the result map's keys ----------------- *)
\* the last position of the input at which locator u stands
LastPositionOf(u) ==
    CHOOSE j \in DOMAIN agg_in.images :
        /\ agg_in.images[j] = u
        /\ \A k \in DOMAIN agg_in.images : agg_in.images[k] = u => k <= j

\* C39: after score_candidates the result map has exactly one evaluation
\* per distinct candidate locator and the locator of every input candidate
\* is a key; when several candidates share a locator, the stored evaluation
\* is the one computed for the last of them in input order.
C39_OneEntryPerLocator ==
    (kind = "score" /\ agg_out.phase = "returned") =>
        /\ DOMAIN agg_out.result = Range(agg_in.images)
        /\ Len(agg_out.log) = Len(agg_in.images)
        /\ \A u \in DOMAIN agg_out.result :
              agg_out.result[u] =
                  ImageEvaluation(agg_out.log[LastPositionOf(u)].module_scores)

\* two candidates with one locator were scored differently (the evaluator
\* answered for the first one only): the map holds the second one's scores
C39_Witness ==
    /\ kind = "score" /\ agg_out.phase = "returned"
    /\ agg_in.images = <<"u1", "u1">>
    /\ agg_out.log[1].doubao = "reply" /\ agg_out.log[2].doubao = "error"
    /\ agg_out.log[1].module_scores # agg_out.log[2].module_scores
    /\ agg_out.result["u1"].module_scores = agg_out.log[2].module_scores

(* ------------------- claims about the clarity rule --------------------- *)
\* the evaluator's reply for the candidate scored last, and the values its
\* final_score and clarity keys normalise to
LastPayload == agg_out.last[1].doubao.payload
RawHolistic == normalize_score(PayloadGet(LastPayload, "final_score"))
RawClarity == FirstScore(LastPayload, SourceKeys("clarity_eval"), 1)

\* the raw values give a clarity below 0.6 together with a holistic score
\* above 0.5
LowClarityHighHolistic ==
    /\ RawClarity # None /\ RawHolistic # None
    /\ RawClarity[1] < 600 /\ RawHolistic[1] > 500

\* C40: in every score set the evaluator's score mapping returns,
\* clarity_eval is not below 0.6 while holistic is above 0.5: whenever the
\* raw values give that combination holistic is set to 0.4, and otherwise
\* the raw values are returned as they are.
C40_ClarityCapsHolistic ==
    (Scored /\ agg_out.last[1].external # None) =>
        LET scores == agg_out.last[1].external[1] IN
        /\ ~(/\ "clarity_eval" \in DOMAIN scores /\ "holistic" \in DOMAIN scores
             /\ scores["clarity_eval"] < 600 /\ scores["holistic"] > 500)
        /\ "holistic" \in DOMAIN scores <=> RawHolistic # None
        /\ "holistic" \in DOMAIN scores =>
              scores["holistic"] =
                  IF LowClarityHighHolistic THEN 400 ELSE RawHolistic[1]

\* the reply held a clarity of 0.5 and a final score of 1.0: holistic is 0.4
C40_Witness ==
    /\ Scored /\ agg_out.last[1].external # None
    /\ LowClarityHighHolistic
    /\ RawClarity[1] = 500 /\ RawHolistic[1] = 1000
    /\ agg_out.last[1].external[1]["holistic"] = 400
    /\ agg_out.last[1].external[1]["clarity_eval"] = 500

====
